---- MODULE Spec2Model ----
(***************************************************************************)
(* Model of PubMed-Literature-Push.                                        *)
(*   SpecReview  process_review_and_sort_articles and the review steps of  *)
(*               run_job, on review texts built from a set of segments     *)
(*   Spec        run_job with the daily run marker, over several days      *)
(*   SpecMail    the retry loop of EmailSender.send_email                  *)
(*   SpecConfig  load_config (send delay, keyword mapping) and the         *)
(*               delivery of the reports of each keyword                   *)
(*   SpecStart   the start of the program and the scheduler                *)
(*   SpecTranslate  PubMedProcessor.translate_abstracts_in_batch           *)
(*   SpecQueue   EmailQueue: the caller's thread and the worker threads     *)
(*   SpecCache   CacheManager: the in-memory cache and cache_result          *)
(*                                                                         *)
(* Texts are sequences of one-character strings.  The four-character       *)
(* heading literal of the references section is the single token "REF".    *)
(***************************************************************************)
EXTENDS Integers, Sequences, FiniteSets, Bags, TLC

(***************************************************************************)
(* Bounds                                                                  *)
(***************************************************************************)
\* segments concatenated into one review text of the reconciliation spec
MaxSegs == 3
\* articles in the list handed to one reconciliation call
MaxArticles == 5
\* calendar days the daily job is followed over
MaxDay == 2
\* run_job calls followed
MaxRuns == 2
\* keywords of a configuration
MaxKeywords == 2
\* recipients subscribed to one keyword
MaxRecipients == 2
\* outbound accounts of an EmailSender
MaxAccounts == 3
\* largest max_retries of an SMTP configuration
MaxRetries == 3
\* send_email calls followed on one EmailSender
MaxSends == 4
\* user groups of a configuration file
MaxGroups == 2
\* accounts of the smtp section of a configuration file
MaxCfgAccounts == 7
\* articles handed to one translate_abstracts_in_batch call
MaxTranslate == 4
\* largest translation_settings.batch_size
MaxBatchSize == 3
\* enqueue calls followed on one EmailQueue
MaxTasks == 2
\* readings of the clock an EmailQueue is followed over
MaxQTime == 2
\* retry_failed_tasks calls followed on one EmailQueue
MaxRetryCalls == 1
\* _send_email results counted by the stats of one EmailQueue
MaxSendResults == 3
\* distinct keys used on one CacheManager
MaxCacheKeys == 2
\* largest max_size of a CacheManager
MaxCacheSize == 2
\* readings of the clock a CacheManager is followed over
MaxCTime == 1
\* calls followed on one CacheManager
MaxCacheOps == 3

(***************************************************************************)
(* Characters and conversions                                              *)
(***************************************************************************)
Digits == {"0", "1", "2", "3", "4", "5", "6", "7", "8", "9"}

\* characters matched by \s
Spaces == {" ", "\n"}

DigitVal(c) ==
    CASE c = "0" -> 0 [] c = "1" -> 1 [] c = "2" -> 2 [] c = "3" -> 3
      [] c = "4" -> 4 [] c = "5" -> 5 [] c = "6" -> 6 [] c = "7" -> 7
      [] c = "8" -> 8 [] c = "9" -> 9

DigitChar(d) ==
    CASE d = 0 -> "0" [] d = 1 -> "1" [] d = 2 -> "2" [] d = 3 -> "3"
      [] d = 4 -> "4" [] d = 5 -> "5" [] d = 6 -> "6" [] d = 7 -> "7"
      [] d = 8 -> "8" [] d = 9 -> "9"

\* first position >= i of s whose character is not in set cs (Len(s)+1 if none)
RECURSIVE SkipChars(_, _, _)
SkipChars(s, i, cs) ==
    IF i <= Len(s) /\ s[i] \in cs THEN SkipChars(s, i + 1, cs) ELSE i

\* int(): value of the digit string s[i..j-1], given the value acc of the digits read so far
RECURSIVE StrToInt(_, _, _, _)
StrToInt(s, i, j, acc) ==
    IF i >= j THEN acc ELSE StrToInt(s, i + 1, j, acc * 10 + DigitVal(s[i]))

\* str(): decimal digits of n >= 0, no leading zero
RECURSIVE IntToStr(_)
IntToStr(n) ==
    IF n < 10 THEN <<DigitChar(n)>>
    ELSE IntToStr(n \div 10) \o <<DigitChar(n % 10)>>

\* str.strip(): s without its leading and trailing whitespace
Strip(s) ==
    LET a == SkipChars(s, 1, Spaces)
        RECURSIVE LastNonSpace(_)
        LastNonSpace(j) == IF j >= 1 /\ s[j] \in Spaces THEN LastNonSpace(j - 1) ELSE j
        b == LastNonSpace(Len(s))
    IN  IF a > b THEN <<>> ELSE SubSeq(s, a, b)

(***************************************************************************)
(* The citation marker pattern: "[", digit groups separated by commas     *)
(* with optional whitespace around each comma, "]"                         *)
(***************************************************************************)
\* j is the position after "[" or after a comma and its whitespace: the position
\* of the closing "]" of the marker, or 0 when the pattern does not match
RECURSIVE MarkerTail(_, _)
MarkerTail(s, j) ==
    LET k == SkipChars(s, j, Digits)
        c == SkipChars(s, k, Spaces)
    IN  IF k = j \/ k > Len(s) THEN 0
        ELSE IF s[k] = "]" THEN k
        ELSE IF c <= Len(s) /\ s[c] = "," THEN MarkerTail(s, SkipChars(s, c + 1, Spaces))
        ELSE 0

\* position of the "]" closing a marker that starts at i, 0 when none starts there
MarkerEnd(s, i) ==
    IF i <= Len(s) /\ s[i] = "[" THEN MarkerTail(s, i + 1) ELSE 0

\* [int(n.strip()) for n in match.split(',')] for the marker content s[j..e-1]
RECURSIVE MarkerNumbers(_, _, _)
MarkerNumbers(s, j, e) ==
    LET a == SkipChars(s, j, Spaces)
        k == SkipChars(s, a, Digits)
        c == SkipChars(s, k, Spaces)
    IN  IF c >= e THEN <<StrToInt(s, a, k, 0)>>
        ELSE <<StrToInt(s, a, k, 0)>> \o MarkerNumbers(s, c + 1, e)

\* re.findall over s from position i, each match turned into its numbers and
\* the numbers concatenated in text order
RECURSIVE citations_from(_, _)
citations_from(s, i) ==
    IF i > Len(s) THEN <<>>
    ELSE LET e == MarkerEnd(s, i)
         IN  IF e = 0 THEN citations_from(s, i + 1)
             ELSE MarkerNumbers(s, i + 1, e) \o citations_from(s, e + 1)

citations_in_order(body) == citations_from(body, 1)

(***************************************************************************)
(* Stripping the references section                                        *)
(***************************************************************************)
\* the pattern \n#*\s*REF matches at position i
HeadingAt(s, i) ==
    /\ i <= Len(s)
    /\ s[i] = "\n"
    /\ LET j == SkipChars(s, SkipChars(s, i + 1, {"#"}), Spaces)
       IN  j <= Len(s) /\ s[j] = "REF"

\* leftmost position >= i where the heading pattern matches, Len(s)+1 if none
RECURSIVE FirstHeading(_, _)
FirstHeading(s, i) ==
    IF i > Len(s) \/ HeadingAt(s, i) THEN i ELSE FirstHeading(s, i + 1)

\* faulty variant: the references section is kept
split_body_whole_text(review_text) == Strip(review_text)

\* re.split(...)[0].strip()
split_body(review_text) ==
    Strip(SubSeq(review_text, 1, FirstHeading(review_text, 1) - 1))

(***************************************************************************)
(* Reconciliation: process_review_and_sort_articles                        *)
(* An article is identified by its 1-based position in original_articles;  *)
(* citation_index 0 stands for an article that carries no citation_index.  *)
(***************************************************************************)
Range(f) == {f[i] : i \in DOMAIN f}

\* position of the first occurrence of x in sequence u (x occurs in u)
IndexOf(u, x) == CHOOSE i \in 1..Len(u) : u[i] = x /\ \A j \in 1..(i - 1) : u[j] # x

\* faulty variant of step 3: repetitions are kept
unique_ordered_old_refs_keep_all(cs) == cs

\* step 3: the cited numbers without repetitions, in order of first appearance
RECURSIVE unique_ordered_old_refs(_)
unique_ordered_old_refs(cs) ==
    IF cs = <<>> THEN <<>>
    ELSE LET init == unique_ordered_old_refs(SubSeq(cs, 1, Len(cs) - 1))
             c == cs[Len(cs)]
         IN  IF c \in Range(init) THEN init ELSE Append(init, c)

\* step 4: {old_idx: new_idx + 1 for new_idx, old_idx in enumerate(unique_ordered_old_refs)}
old_to_new_map(refs) == [o \in Range(refs) |-> IndexOf(refs, o)]

\* the guard of step 5: the cited number designates an article of the list
in_range(old_idx, n) == 0 < old_idx /\ old_idx <= n

\* step 5: the articles appended to sorted_articles, as original positions
select_sorted_articles(refs, n) == SelectSeq(refs, LAMBDA o : in_range(o, n))

\* faulty variant: an article is stamped with its position in sorted_articles
stamp_citation_index_by_position(cidx, refs, n) ==
    [p \in 1..n |-> IF p \in Range(refs) THEN IndexOf(select_sorted_articles(refs, n), p)
                                         ELSE cidx[p]]

\* step 5: the citation_index fields after the loop
stamp_citation_index(cidx, refs, n) ==
    [p \in 1..n |-> IF p \in Range(refs) THEN old_to_new_map(refs)[p] ELSE cidx[p]]

\* faulty variant: the 0-based loop index is stored as it is
default_citation_index_zero_based(i) == i

\* the index given to the article at 0-based position i when nothing is cited
default_citation_index(i) == i + 1

\* ','.join(str(n) for n in nums)
RECURSIVE JoinNumbers(_)
JoinNumbers(nums) ==
    IF Len(nums) = 1 THEN IntToStr(nums[1])
    ELSE IntToStr(nums[1]) \o <<",">> \o JoinNumbers(Tail(nums))

\* faulty variant: only the first number of the marker is written back
replace_citation_first_only(s, i, e, map) ==
    LET old_idx == MarkerNumbers(s, i + 1, e)[1]
    IN  <<"[">> \o IntToStr(IF old_idx \in DOMAIN map THEN map[old_idx] ELSE old_idx) \o <<"]">>

\* replace_citation: the text put in place of the marker s[i..e]
replace_citation(s, i, e, map) ==
    LET old_indices == MarkerNumbers(s, i + 1, e)
        new_indices == [k \in 1..Len(old_indices) |->
                           IF old_indices[k] \in DOMAIN map THEN map[old_indices[k]]
                           ELSE old_indices[k]]
    IN  <<"[">> \o JoinNumbers(new_indices) \o <<"]">>

\* re.sub over s from position i
RECURSIVE rewrite_from(_, _, _)
rewrite_from(s, i, map) ==
    IF i > Len(s) THEN <<>>
    ELSE LET e == MarkerEnd(s, i)
         IN  IF e = 0 THEN <<s[i]>> \o rewrite_from(s, i + 1, map)
             ELSE replace_citation(s, i, e, map) \o rewrite_from(s, e + 1, map)

\* the whole function on a list of n articles whose citation_index fields are cidx:
\* the returned body, the returned list (original positions), the map of step 4
\* and the citation_index fields afterwards
process_review_and_sort_articles(review_text, n, cidx) ==
    LET body == split_body(review_text)
        cites == citations_in_order(body)
        refs == unique_ordered_old_refs(cites)
    IN  IF cites = <<>>
        THEN [body |-> body,
              sorted_articles |-> [p \in 1..n |-> p],
              old_to_new_map |-> <<>>,
              citation_index |-> [p \in 1..n |-> default_citation_index(p - 1)]]
        ELSE [body |-> rewrite_from(body, 1, old_to_new_map(refs)),
              sorted_articles |-> select_sorted_articles(refs, n),
              old_to_new_map |-> old_to_new_map(refs),
              citation_index |-> stamp_citation_index(cidx, refs, n)]

(***************************************************************************)
(* run_job: the articles handed to the translator                         *)
(***************************************************************************)
\* generate_review: the numbers of every marker of the whole review text
citations_in_review(review) == citations_from(review, 1)

\* run_job: the cited numbers kept for translation, without repetitions
RECURSIVE unique_cited_indices(_, _)
unique_cited_indices(cited, n) ==
    IF cited = <<>> THEN <<>>
    ELSE LET init == unique_cited_indices(SubSeq(cited, 1, Len(cited) - 1), n)
             idx == cited[Len(cited)]
         IN  IF idx \notin Range(init) /\ idx <= n THEN Append(init, idx) ELSE init

\* position of articles[i - 1] in a list of n articles (index -1 is the last element)
list_item(i, n) == IF i = 0 THEN n ELSE i

\* run_job: [articles[i-1] for i in unique_cited_indices], as positions
cited_articles(cited, n) ==
    LET u == unique_cited_indices(cited, n)
    IN  [k \in 1..Len(u) |-> list_item(u[k], n)]

\* the pmid of each article of a list, in list order
pmids(arts) == [p \in 1..Len(arts) |-> arts[p].pmid]

\* faulty variant: the keyword's list becomes the list of translated articles
merge_translations_cited_only(arts, cited) ==
    [k \in 1..Len(cited) |-> [arts[cited[k]] EXCEPT !.translated_abstract = TRUE]]

\* run_job: translate_abstracts_in_batch(cited_articles) sets the field of every
\* article handed to it, and the loop over the original list copies the field
\* to the articles of the same pmid
merge_translations(arts, cited) ==
    LET cited_pmids == {arts[cited[k]].pmid : k \in 1..Len(cited)}
    IN  [p \in 1..Len(arts) |->
            IF arts[p].pmid \in cited_pmids
            THEN [arts[p] EXCEPT !.translated_abstract = TRUE]
            ELSE arts[p]]

(***************************************************************************)
(* Review texts                                                            *)
(***************************************************************************)
Segments ==
    { <<"[", "1", "]">>,
      <<"[", "2", "]">>,
      <<"[", "3", ",", "1", "]">>,
      <<"[", "3", " ", ",", " ", "2", "]">>,
      <<"[", "0", "]">>,
      <<"[", "9", "]">>,
      <<"[", "0", "2", "]">>,
      <<"[", "4", " ", "]">>,
      <<"x">>,
      <<"\n", "#", " ", "REF", "\n">> }

RECURSIVE Flatten(_)
Flatten(ss) == IF ss = <<>> THEN <<>> ELSE Head(ss) \o Flatten(Tail(ss))

\* the texts made of at most k segments
TextsUpTo(k) == UNION { { Flatten(ss) : ss \in [1..m -> Segments] } : m \in 0..k }

Texts == TextsUpTo(MaxSegs)

(***************************************************************************)
(* State                                                                   *)
(***************************************************************************)
VARIABLES
    review_text,        \* argument of process_review_and_sort_articles
    n_articles,         \* len(original_articles)
    citation_index,     \* citation_index field of the article at each original position
    sorted_articles,    \* returned list, as original positions
    ref_map,            \* old_to_new_map of the call
    new_body,           \* returned body
    translated,         \* run_job: cited_articles handed to translate_abstracts_in_batch,
                        \* as original positions
    rv_pc,              \* "call" before the call, "done" after process_review_and_sort_articles
                        \* alone, "reported" after the review steps of run_job
    articles,           \* run_job: the article list of the keyword, each article with its
                        \* pmid and whether it carries a translated_abstract
    prompt_articles,    \* pmids in the order generate_review numbered them in the prompt
    reconciled_articles,\* pmids of the list handed to process_review_and_sort_articles
    today,              \* date.today()
    marker,             \* content of .daily_run_marker.json
    job_pc,             \* position of run_job: "idle", "setup", "loop", "finally"
    job_result,         \* outcome of the most recent invocation
    invocations,        \* run_job calls so far
    call_day,           \* day of the most recent run_job call
    error_occurred,     \* run_job local
    config,             \* run_job local: "none" or "loaded"
    n_keywords,         \* len(keyword_to_emails) of the loaded configuration
    admin_email,        \* config.yaml names an admin recipient (smtp.admin_email)
    kw_i,               \* 1-based position of the next keyword of the loop
    attempted,          \* keywords whose loop body was entered in this run
    search_calls,       \* Entrez searches of this run
    llm_calls,          \* LLM generate calls of this run
    report_mails,       \* send_report_email calls of this run
    admin_mails,        \* admin report send_email calls of this run
    marker_at_start,    \* marker when this run passed the guard
    setup_failed,       \* load_config or a service constructor raised in this run
    review_calls,       \* generate_review calls of this run
    translate_calls,    \* translation LLM calls of this run
    no_article_kws,     \* keywords of this run whose search returned no article
    marked,             \* mark_today_as_run was called by this run
    admin_status,       \* status line of the admin report of this run, "none" if not sent
    undelivered,        \* a send_email call of this run for a report ended in a delivery
                        \* failure (it logged the failure and returned)
    exception_caught,   \* the except clause of run_job was entered in this run
    prior_partial,      \* the previous run_job call was made on the day of this one,
                        \* mailed reports and ended with an error
    successful_runs     \* per day: runs that ended without error and wrote the marker,
                        \* counted since the marker file was last removed
VARIABLES
    n_accounts,             \* len(self.accounts)
    max_retries,            \* self.config.get('max_retries', 3)
    current_account_index,  \* the round-robin cursor
    account,                \* index of the account chosen by the current call
    attempt,                \* loop variable of the retry loop
    mail_pc,                \* "idle" between calls, "attempt" inside the retry loop
    mail_result,            \* how the most recent call ended
    last_error,             \* failure of the most recent attempt of the call
    attempts_made,          \* connection attempts of the current call
    sendmail_calls,         \* server.sendmail calls of the current call
    sendmail_ok,            \* server.sendmail calls of the current call that returned
    sleeps,                 \* time.sleep(retry_delay) calls of the current call
    sends,                  \* send_email calls so far
    account_index,          \* the account_index argument of the most recent call
    cursor_sends            \* accounts returned by get_next_account so far, oldest first

VARIABLES
    config_exists,          \* os.path.exists(config_path)
    load_error,             \* the exception that left load_config
    user_groups,            \* config.yaml: the user_groups list
    accounts_key,           \* config.yaml: the smtp section has an accounts list
    smtp_accounts,          \* config.yaml: length of smtp.accounts
    base_minutes,           \* config.yaml: smtp.base_interval_minutes
    cfg_pc,                 \* "file" before load_config, "loaded", "failed", "delivered"
    keyword_to_emails,      \* config['keyword_to_emails'], in insertion order
    delay_emails,           \* delay_emails of run_job
    prev_delay_emails,      \* delay_emails under the configuration loaded before
    dk_i,                   \* 1-based position of the next keyword of the loop
    deliveries              \* per keyword processed: what the loop body did

VARIABLES
    flags,                  \* command line: "none", "force_run" or "clear_marker"
    clock,                  \* datetime.now() against today's run time at the start:
                            \* "before", "at", "after"; "unknown" without a run time
    start_pc,               \* "start", "invoke" (run_job is being called), "main_loop", "exited"
    start_config,           \* load_config of the start: "none", "loaded", "failed"
    catch_up_check,         \* has_run_today of the catch-up check, "none" if not evaluated
    scheduled,              \* the daily job is registered with the scheduler
    startup_calls,          \* run_job calls made by the start code
    startup_pipeline,       \* the run_job call of the start code passed its guard
    sched_calls             \* run_job calls made by the scheduler

VARIABLES
    tr_articles,            \* translated_abstract of each article of the list handed in:
                            \* "none" (no such key), "empty", "preset", and what the
                            \* function writes
    tr_initial,             \* tr_articles when the function was called
    tr_batch_size,          \* translation_settings.batch_size
    tr_template,            \* config['prompts'] has the translate_abstract template
    tr_queue,               \* articles_to_translate, as positions of the list handed in
    tr_i,                   \* loop variable i
    tr_pc,                  \* "call", "loop", "returned", "raised"
    tr_error,               \* the exception that left the function, "none" if none
    tr_batches              \* per translator call: the positions sent and how it ended

VARIABLES
    pending_queue,          \* self.pending_queue, left end first
    processing_queue,       \* keys of self.processing_queue
    failed_queue,           \* self.failed_queue, left end first
    q_stats,                \* self.stats
    batch_size,             \* self.batch_size
    retry_delay,            \* self.retry_delay
    q_now,                  \* time.time()
    workers,                \* the worker threads, as a bag of thread states: pc is "idle"
                            \* between two process_batch calls,
                            \* "sending" with a batch in hand, "closing" before the last
                            \* statistics update; batch holds the tasks not handled yet,
                            \* current_time the local of process_batch
    enqueue_calls,          \* enqueue calls that returned
    retry_calls,            \* retry_failed_tasks calls that returned
    retry_result,           \* what the most recent retry_failed_tasks call returned
    sent_ok,                \* ids of the tasks for which _send_email returned True
    main_last,              \* the most recent call of the caller's thread
    observed                \* what the caller read right after its most recent enqueue

VARIABLES
    memory_cache,           \* self.memory_cache: the entries in dict order
    max_size,               \* self.max_size
    default_ttl,            \* self.default_ttl
    c_now,                  \* time.time()
    cache_ops,              \* calls made on the CacheManager
    last_call,              \* the most recent call: its name, key and what it returned
    store,                  \* the cache_entries table: per key the value stored, or "absent"
    save_threads,           \* the _save_to_database threads started and not yet run, as a
                            \* bag of the entries they hold
    latest                  \* per key: the most recent set (value, expiry, whether
                            \* cache_result made it) or how the key was removed since

reviewVars == <<review_text, n_articles, citation_index, sorted_articles, ref_map, new_body,
                translated, rv_pc, articles, prompt_articles, reconciled_articles>>

guardVars == <<today, marker, job_pc, job_result, invocations, call_day>>

runVars == <<error_occurred, config, n_keywords, admin_email, kw_i, attempted,
             search_calls, llm_calls, report_mails, admin_mails, marker_at_start, setup_failed,
             review_calls, translate_calls, no_article_kws, marked, admin_status,
             prior_partial, undelivered, exception_caught>>

ghostVars == <<successful_runs>>

jobVars == <<guardVars, runVars, ghostVars>>

mailVars == <<n_accounts, max_retries, current_account_index, account, attempt, mail_pc,
              mail_result, last_error, attempts_made, sendmail_calls, sendmail_ok, sleeps, sends,
              account_index, cursor_sends>>

configVars == <<config_exists, load_error, user_groups, accounts_key, smtp_accounts, base_minutes,
                cfg_pc, keyword_to_emails, delay_emails, prev_delay_emails, dk_i, deliveries>>

startVars == <<flags, clock, start_pc, start_config, catch_up_check, scheduled,
               startup_calls, startup_pipeline, sched_calls>>

translateVars == <<tr_articles, tr_initial, tr_batch_size, tr_template, tr_queue, tr_i, tr_pc,
                   tr_error, tr_batches>>

queueVars == <<pending_queue, processing_queue, failed_queue, q_stats, batch_size, retry_delay,
               q_now, workers, enqueue_calls, retry_calls, retry_result, main_last, observed,
               sent_ok>>

cacheVars == <<memory_cache, max_size, default_ttl, c_now, cache_ops, last_call, latest,
              store, save_threads>>

nonReviewVars == <<jobVars, mailVars, configVars, startVars, translateVars, queueVars,
                   cacheVars>>

nonJobVars == <<reviewVars, mailVars, configVars, startVars, translateVars, queueVars,
                cacheVars>>

nonMailVars == <<reviewVars, jobVars, configVars, startVars, translateVars, queueVars,
                 cacheVars>>

nonConfigVars == <<reviewVars, jobVars, mailVars, startVars, translateVars, queueVars,
                   cacheVars>>

\* what the start code and the scheduler leave alone: everything but the
\* marker file and the date
nonStartVars == <<job_pc, job_result, invocations, call_day, runVars, ghostVars,
                  reviewVars, mailVars, configVars, translateVars, queueVars, cacheVars>>

nonTranslateVars == <<reviewVars, jobVars, mailVars, configVars, startVars, queueVars,
                      cacheVars>>

nonQueueVars == <<reviewVars, jobVars, mailVars, configVars, startVars, translateVars,
                  cacheVars>>

nonCacheVars == <<reviewVars, jobVars, mailVars, configVars, startVars, translateVars,
                  queueVars>>

vars == <<reviewVars, jobVars, mailVars, configVars, startVars, translateVars, queueVars,
          cacheVars>>

(***************************************************************************)
(* Specification of one reconciliation call                                *)
(***************************************************************************)
ReviewIdle ==
    /\ review_text = <<>>
    /\ n_articles = 0
    /\ citation_index = <<>>
    /\ sorted_articles = <<>>
    /\ ref_map = <<>>
    /\ new_body = <<>>
    /\ translated = <<>>
    /\ rv_pc = "idle"
    /\ articles = <<>>
    /\ prompt_articles = <<>>
    /\ reconciled_articles = <<>>

\* the keys used on a CacheManager
CacheKeys == 1..MaxCacheKeys

\* no call made yet
NoCall == [op |-> "none", key |-> 0, result |-> "None", flag |-> FALSE, count |-> 0,
           executed |-> FALSE]

\* a key no set was made for
NeverSet == [state |-> "never", value |-> "None", expires_at |-> 0, by_call |-> FALSE]

\* a CacheManager of max_size m and default_ttl d with nothing in it
CacheFresh(m, d) ==
    /\ memory_cache = <<>>
    /\ max_size = m
    /\ default_ttl = d
    /\ c_now = 1
    /\ cache_ops = 0
    /\ last_call = NoCall
    /\ latest = [k \in CacheKeys |-> NeverSet]
    /\ store = [k \in CacheKeys |-> "absent"]
    /\ save_threads = EmptyBag

\* no CacheManager looked at
CacheIdle == CacheFresh(1000, 3600)

\* the worker threads the constructor of an EmailQueue starts
NumWorkers == 3

\* the caller has not read the queue since its last call
Unread == [read |-> FALSE, calls |-> 0, pending_len |-> 0, pending_size |-> 0, enqueued |-> 0]

\* a worker thread in front of the last locked block of process_batch
ClosingWorker == [pc |-> "closing", batch |-> <<>>, current_time |-> 0]

\* a worker thread between two process_batch calls
IdleWorker == [pc |-> "idle", batch |-> <<>>, current_time |-> 0]

\* an EmailQueue with batch size b and retry delay d, constructed when the
\* clock reads now
QueueFreshAt(b, d, now) ==
    /\ pending_queue = <<>>
    /\ processing_queue = {}
    /\ failed_queue = <<>>
    /\ q_stats = [enqueued |-> 0, processed |-> 0, failed |-> 0, retried |-> 0, queue_size |-> 0]
    /\ batch_size = b
    /\ retry_delay = d
    /\ q_now = now
    /\ workers = (IdleWorker :> NumWorkers)
    /\ enqueue_calls = 0
    /\ retry_calls = 0
    /\ retry_result = 0
    /\ main_last = "none"
    /\ observed = Unread
    /\ sent_ok = {}

\* a freshly constructed EmailQueue, the clock reading 0
QueueFresh(b, d) == QueueFreshAt(b, d, 0)

\* no EmailQueue looked at
QueueIdle == QueueFresh(10, 300)

\* translate_abstracts_in_batch not called
TranslateIdle ==
    /\ tr_articles = <<>>
    /\ tr_initial = <<>>
    /\ tr_batch_size = 5
    /\ tr_template = TRUE
    /\ tr_queue = <<>>
    /\ tr_i = 0
    /\ tr_pc = "idle"
    /\ tr_error = "none"
    /\ tr_batches = <<>>

\* load_config has raised nothing
NoError == [type |-> "none", error_code |-> "none"]

\* no configuration file looked at
ConfigIdle ==
    /\ config_exists = TRUE
    /\ load_error = NoError
    /\ user_groups = <<>>
    /\ accounts_key = FALSE
    /\ smtp_accounts = 0
    /\ base_minutes = 10
    /\ cfg_pc = "idle"
    /\ keyword_to_emails = <<>>
    /\ delay_emails = 0
    /\ prev_delay_emails = 0
    /\ dk_i = 0
    /\ deliveries = <<>>

\* no process start looked at
StartIdle ==
    /\ flags = "none"
    /\ clock = "unknown"
    /\ start_pc = "idle"
    /\ start_config = "none"
    /\ catch_up_check = "none"
    /\ scheduled = FALSE
    /\ startup_calls = 0
    /\ startup_pipeline = FALSE
    /\ sched_calls = 0

\* an EmailSender of n accounts and m retries on which send_email was not called yet
MailIdle(n, m) ==
    /\ n_accounts = n
    /\ max_retries = m
    /\ current_account_index = 0
    /\ account = 0
    /\ attempt = 0
    /\ mail_pc = "idle"
    /\ mail_result = "none"
    /\ last_error = "none"
    /\ attempts_made = 0
    /\ sendmail_calls = 0
    /\ sendmail_ok = 0
    /\ sleeps = 0
    /\ sends = 0
    /\ account_index = [given |-> FALSE, index |-> 0]
    /\ cursor_sends = <<>>

\* no run_job call made yet, the marker file in state m
JobIdle(m) ==
    /\ today = 1
    /\ marker = m
    /\ job_pc = "idle"
    /\ job_result = "none"
    /\ invocations = 0
    /\ call_day = 0
    /\ error_occurred = FALSE
    /\ config = "none"
    /\ n_keywords = 0
    /\ admin_email = FALSE
    /\ kw_i = 0
    /\ attempted = {}
    /\ search_calls = 0
    /\ llm_calls = 0
    /\ report_mails = 0
    /\ admin_mails = 0
    /\ marker_at_start = m
    /\ setup_failed = FALSE
    /\ review_calls = 0
    /\ translate_calls = 0
    /\ no_article_kws = {}
    /\ marked = FALSE
    /\ admin_status = "none"
    /\ prior_partial = FALSE
    /\ undelivered = FALSE
    /\ exception_caught = FALSE
    /\ successful_runs = [d \in 1..MaxDay |-> 0]

InitReview ==
    /\ CacheIdle
    /\ QueueIdle
    /\ TranslateIdle
    /\ JobIdle([kind |-> "absent", date |-> 0])
    /\ MailIdle(1, 3)
    /\ ConfigIdle
    /\ StartIdle
    /\ review_text \in Texts
    /\ n_articles \in 1..MaxArticles
    /\ citation_index = [p \in 1..n_articles |-> 0]
    /\ sorted_articles = <<>>
    /\ ref_map = <<>>
    /\ new_body = <<>>
    /\ translated = <<>>
    /\ rv_pc = "call"
    /\ articles = [p \in 1..n_articles |-> [pmid |-> 100 + p, translated_abstract |-> FALSE]]
    /\ prompt_articles = <<>>
    /\ reconciled_articles = <<>>

Reconcile ==
    /\ rv_pc = "call"
    /\ LET r == process_review_and_sort_articles(review_text, n_articles, citation_index)
       IN  /\ new_body' = r.body
           /\ sorted_articles' = r.sorted_articles
           /\ ref_map' = r.old_to_new_map
           /\ citation_index' = r.citation_index
    /\ rv_pc' = "done"
    /\ UNCHANGED <<review_text, n_articles, translated, articles, prompt_articles,
                   reconciled_articles>>
    /\ UNCHANGED nonReviewVars

\* the steps of run_job between generate_review and the delivery, for a review
\* text returned by the LLM: the cited articles are handed to the translator,
\* then the review is reconciled
ReviewSteps ==
    /\ rv_pc = "call"
    /\ prompt_articles' = pmids(articles)
    /\ translated' = cited_articles(citations_in_review(review_text), n_articles)
    /\ articles' = merge_translations(articles, translated')
    /\ reconciled_articles' = pmids(articles')
    /\ LET r == process_review_and_sort_articles(review_text, n_articles, citation_index)
       IN  /\ new_body' = r.body
           /\ sorted_articles' = r.sorted_articles
           /\ ref_map' = r.old_to_new_map
           /\ citation_index' = r.citation_index
    /\ rv_pc' = "reported"
    /\ UNCHANGED <<review_text, n_articles>>
    /\ UNCHANGED nonReviewVars

NextReview == Reconcile \/ ReviewSteps

SpecReview == InitReview /\ [][NextReview]_vars

(***************************************************************************)
(* The daily run marker                                                    *)
(***************************************************************************)
\* marker file states that are not a record with a parsable date:
\*   unreadable      open() raises OSError
\*   not_json        json.load raises JSONDecodeError
\*   other_shape     JSON that is not an object (a list, a number, a string, null)
\*   no_key          an object without last_run_date
\*   nonstring_date  an object whose last_run_date is not a string
\*   bad_date        a string strptime cannot parse
CorruptKinds == {"unreadable", "not_json", "other_shape", "no_key", "nonstring_date", "bad_date"}

MarkerStates ==
    { [kind |-> k, date |-> 0] : k \in CorruptKinds \cup {"absent"} }
        \cup { [kind |-> "ok", date |-> d] : d \in 0..MaxDay }

\* faulty variant: the stored date is never recognised as today
has_run_today_never(m, d) == "false"

\* "true" or "false" for the value returned, "raise" for an exception that
\* leaves the function (the except clause names JSONDecodeError, KeyError,
\* ValueError and OSError; indexing a non-object and strptime of a non-string
\* raise TypeError)
has_run_today(m, d) ==
    CASE m.kind = "absent" -> "false"
      [] m.kind \in {"unreadable", "not_json", "no_key", "bad_date"} -> "false"
      [] m.kind \in {"other_shape", "nonstring_date"} -> "raise"
      [] m.kind = "ok" -> IF m.date = d THEN "true" ELSE "false"

\* the file after mark_today_as_run on day d; written is FALSE when open() raises OSError
mark_today_as_run(m, d, written) ==
    IF written THEN [kind |-> "ok", date |-> d] ELSE m

\* faulty variant: the marker is written whatever error_occurred says
should_mark_always(err) == TRUE

\* the condition of the finally block under which the marker is written
should_mark(err) == ~err

\* the status line of the admin report
admin_report_status(err) == IF err THEN "failure" ELSE "success"

(***************************************************************************)
(* The per-keyword pipeline of run_job                                     *)
(***************************************************************************)
\* faulty variant: a delivery failure is reported to run_job and sets the flag
error_after_reports_checks_delivery(err, all_delivered) == err \/ ~all_delivered

\* error_occurred after the send_report_email calls of a keyword have returned:
\* send_email logs a delivery failure and returns None like a delivery, and
\* run_job does not look at what send_report_email returns
error_after_reports(err, all_delivered) == err

\* faulty variant: an empty keyword mapping counts as an error of the run
error_after_mapping_check_empty_is_error(err, k) == err \/ k = 0

\* error_occurred after 'if not keyword_to_emails': the warning is logged and
\* run_job returns from inside the try block, no exception is raised
error_after_mapping_check(err, k) == err

\* faulty variant: the loop is left after the keyword
AfterKeyword_breaks ==
    /\ kw_i' = kw_i
    /\ job_pc' = "finally"
    /\ exception_caught' = exception_caught

\* the loop goes on with the next keyword, or ends after the last one
AfterKeyword ==
    /\ IF kw_i < n_keywords
       THEN /\ kw_i' = kw_i + 1
            /\ job_pc' = "loop"
       ELSE /\ kw_i' = kw_i
            /\ job_pc' = "finally"
    /\ exception_caught' = exception_caught

\* faulty variant: the except clause does not set error_occurred
KeywordRaises_flag_not_set ==
    /\ error_occurred' = error_occurred
    /\ exception_caught' = TRUE
    /\ kw_i' = kw_i
    /\ job_pc' = "finally"

\* an exception leaves the for loop: the except clause of run_job
KeywordRaises ==
    /\ error_occurred' = TRUE
    /\ exception_caught' = TRUE
    /\ kw_i' = kw_i
    /\ job_pc' = "finally"

(***************************************************************************)
(* Specification of the daily job                                          *)
(***************************************************************************)
Init ==
    /\ CacheIdle
    /\ QueueIdle
    /\ TranslateIdle
    /\ ReviewIdle
    /\ MailIdle(1, 3)
    /\ ConfigIdle
    /\ StartIdle
    /\ \E m \in MarkerStates : JobIdle(m)

\* run_job called while today's marker exists: log and return
RunJobSkipped ==
    /\ job_pc = "idle"
    /\ invocations < MaxRuns
    /\ has_run_today(marker, today) = "true"
    /\ invocations' = invocations + 1
    /\ call_day' = today
    /\ job_result' = "skipped"
    /\ UNCHANGED <<today, marker, job_pc, runVars, ghostVars, nonJobVars>>

\* run_job called and has_run_today raises: the exception leaves run_job
RunJobGuardRaises ==
    /\ job_pc = "idle"
    /\ invocations < MaxRuns
    /\ has_run_today(marker, today) = "raise"
    /\ invocations' = invocations + 1
    /\ call_day' = today
    /\ job_result' = "guard_raised"
    /\ UNCHANGED <<today, marker, job_pc, runVars, ghostVars, nonJobVars>>

\* run_job called and the guard passes: the locals are initialised
RunJobStart ==
    /\ job_pc = "idle"
    /\ invocations < MaxRuns
    /\ has_run_today(marker, today) = "false"
    /\ invocations' = invocations + 1
    /\ call_day' = today
    /\ job_result' = "running"
    /\ job_pc' = "setup"
    /\ error_occurred' = FALSE
    /\ config' = "none"
    /\ n_keywords' = 0
    /\ admin_email' = FALSE
    /\ kw_i' = 0
    /\ attempted' = {}
    /\ search_calls' = 0
    /\ llm_calls' = 0
    /\ report_mails' = 0
    /\ admin_mails' = 0
    /\ marker_at_start' = marker
    /\ setup_failed' = FALSE
    /\ review_calls' = 0
    /\ translate_calls' = 0
    /\ no_article_kws' = {}
    /\ marked' = FALSE
    /\ admin_status' = "none"
    /\ undelivered' = FALSE
    /\ exception_caught' = FALSE
    /\ prior_partial' = (job_result = "done" /\ error_occurred /\ report_mails > 0
                             /\ call_day = today)
    /\ UNCHANGED <<today, marker, ghostVars, nonJobVars>>

\* load_config raises (the file is missing, or it is read and fails the
\* validation): config stays None
SetupLoadConfigRaises ==
    /\ job_pc = "setup"
    /\ \E adm \in BOOLEAN : admin_email' = adm
    /\ error_occurred' = TRUE
    /\ setup_failed' = TRUE
    /\ job_pc' = "finally"
    /\ UNCHANGED <<today, marker, job_result, invocations, call_day>>
    /\ UNCHANGED <<config, n_keywords, kw_i, attempted, search_calls,
                   llm_calls, report_mails, admin_mails, marker_at_start>>
    /\ UNCHANGED <<review_calls, translate_calls, no_article_kws, marked, admin_status,
                   prior_partial>>
    /\ UNCHANGED <<ghostVars, nonJobVars>>
    /\ exception_caught' = TRUE
    /\ UNCHANGED undelivered

\* load_config returns and PubMedProcessor, DataProcessor or EmailSender raises
SetupServiceRaises ==
    /\ job_pc = "setup"
    /\ \E k \in 0..MaxKeywords, adm \in BOOLEAN :
           /\ n_keywords' = k
           /\ admin_email' = adm
    /\ config' = "loaded"
    /\ error_occurred' = TRUE
    /\ setup_failed' = TRUE
    /\ job_pc' = "finally"
    /\ UNCHANGED <<today, marker, job_result, invocations, call_day>>
    /\ UNCHANGED <<kw_i, attempted, search_calls, llm_calls, report_mails, admin_mails,
                   marker_at_start>>
    /\ UNCHANGED <<review_calls, translate_calls, no_article_kws, marked, admin_status,
                   prior_partial>>
    /\ UNCHANGED <<ghostVars, nonJobVars>>
    /\ exception_caught' = TRUE
    /\ UNCHANGED undelivered

\* the configuration is loaded and the services are built; an empty
\* keyword_to_emails returns from inside the try block
SetupDone ==
    /\ job_pc = "setup"
    /\ \E k \in 0..MaxKeywords, adm \in BOOLEAN :
           /\ n_keywords' = k
           /\ admin_email' = adm
           /\ IF k = 0
              THEN kw_i' = 0 /\ job_pc' = "finally"
              ELSE kw_i' = 1 /\ job_pc' = "loop"
    /\ config' = "loaded"
    /\ error_occurred' = error_after_mapping_check(error_occurred, n_keywords')
    /\ UNCHANGED <<today, marker, job_result, invocations, call_day>>
    /\ UNCHANGED <<attempted, search_calls, llm_calls, report_mails,
                   admin_mails, marker_at_start, setup_failed>>
    /\ UNCHANGED <<review_calls, translate_calls, no_article_kws, marked, admin_status,
                   prior_partial>>
    /\ UNCHANGED <<ghostVars, nonJobVars>>
    /\ UNCHANGED <<undelivered, exception_caught>>

\* keyword kw_i: the LLM call of _generate_search_term raises inside search_articles
KeywordSearchRaises ==
    /\ job_pc = "loop"
    /\ attempted' = attempted \cup {kw_i}
    /\ llm_calls' = llm_calls + 1
    /\ KeywordRaises
    /\ UNCHANGED <<today, marker, job_result, invocations, call_day>>
    /\ UNCHANGED <<config, n_keywords, admin_email, search_calls, report_mails, admin_mails,
                   marker_at_start, setup_failed>>
    /\ UNCHANGED <<review_calls, translate_calls, no_article_kws, marked, admin_status,
                   prior_partial>>
    /\ UNCHANGED <<ghostVars, nonJobVars>>
    /\ UNCHANGED undelivered

\* keyword kw_i: the search finds nothing (or fails inside search_articles): continue
KeywordNoArticles ==
    /\ job_pc = "loop"
    /\ attempted' = attempted \cup {kw_i}
    /\ llm_calls' = llm_calls + 1
    /\ search_calls' = search_calls + 1
    /\ no_article_kws' = no_article_kws \cup {kw_i}
    /\ AfterKeyword
    /\ UNCHANGED <<today, marker, job_result, invocations, call_day>>
    /\ UNCHANGED <<error_occurred, config, n_keywords, admin_email, report_mails, admin_mails,
                   marker_at_start, setup_failed>>
    /\ UNCHANGED <<review_calls, translate_calls, marked, admin_status, prior_partial>>
    /\ UNCHANGED <<ghostVars, nonJobVars>>
    /\ UNCHANGED undelivered

\* keyword kw_i: articles are found and the LLM call of generate_review raises
KeywordReviewRaises ==
    /\ job_pc = "loop"
    /\ attempted' = attempted \cup {kw_i}
    /\ llm_calls' = llm_calls + 2
    /\ search_calls' = search_calls + 1
    /\ review_calls' = review_calls + 1
    /\ KeywordRaises
    /\ UNCHANGED <<today, marker, job_result, invocations, call_day>>
    /\ UNCHANGED <<config, n_keywords, admin_email, report_mails, admin_mails,
                   marker_at_start, setup_failed>>
    /\ UNCHANGED <<translate_calls, no_article_kws, marked, admin_status, prior_partial>>
    /\ UNCHANGED <<ghostVars, nonJobVars>>
    /\ UNCHANGED undelivered

\* keyword kw_i: search, review, translation of the cited articles (an LLM call
\* when an abstract is left to translate), reconciliation and one
\* send_report_email per recipient; raises_at = j > 0 when the j-th
\* send_report_email raises (template loading or rendering); failed says that
\* a send_email call of the keyword ended in a delivery failure
KeywordReport ==
    /\ job_pc = "loop"
    /\ attempted' = attempted \cup {kw_i}
    /\ search_calls' = search_calls + 1
    /\ \E emails \in 1..MaxRecipients, translates \in BOOLEAN :
         \E raises_at \in 0..emails, failed \in BOOLEAN :
           /\ llm_calls' = llm_calls + 2 + (IF translates THEN 1 ELSE 0)
           /\ translate_calls' = translate_calls + (IF translates THEN 1 ELSE 0)
           /\ failed => raises_at # 1
           /\ undelivered' = (undelivered \/ failed)
           /\ IF raises_at = 0
              THEN /\ report_mails' = report_mails + emails
                   /\ AfterKeyword
                   /\ error_occurred' = error_after_reports(error_occurred, ~failed)
              ELSE /\ report_mails' = report_mails + (raises_at - 1)
                   /\ KeywordRaises
    /\ UNCHANGED <<today, marker, job_result, invocations, call_day>>
    /\ review_calls' = review_calls + 1
    /\ UNCHANGED <<config, n_keywords, admin_email, admin_mails, marker_at_start, setup_failed>>
    /\ UNCHANGED <<no_article_kws, marked, admin_status, prior_partial>>
    /\ UNCHANGED <<ghostVars, nonJobVars>>

\* the finally block: the marker is written when no error occurred, the admin
\* report is sent when a configuration was loaded and names an admin
Finally ==
    /\ job_pc = "finally"
    /\ \E written \in BOOLEAN :
           /\ marker' = IF should_mark(error_occurred)
                        THEN mark_today_as_run(marker, today, written)
                        ELSE marker
           /\ successful_runs' =
                  IF ~error_occurred /\ should_mark(error_occurred) /\ written
                  THEN [successful_runs EXCEPT ![today] = @ + 1]
                  ELSE successful_runs
    /\ marked' = should_mark(error_occurred)
    /\ admin_mails' = IF config = "loaded" /\ admin_email THEN 1 ELSE 0
    /\ admin_status' = IF config = "loaded" /\ admin_email
                       THEN admin_report_status(error_occurred)
                       ELSE "none"
    /\ job_pc' = "idle"
    /\ job_result' = "done"
    /\ UNCHANGED <<today, invocations, call_day>>
    /\ UNCHANGED <<error_occurred, config, n_keywords, admin_email, kw_i, attempted,
                   search_calls, llm_calls, report_mails, marker_at_start, setup_failed>>
    /\ UNCHANGED <<review_calls, translate_calls, no_article_kws, prior_partial>>
    /\ UNCHANGED nonJobVars
    /\ UNCHANGED <<undelivered, exception_caught>>

\* the program started with --clear-marker: the file is removed if it exists
\* (removed is FALSE when os.remove raises OSError)
ClearMarker ==
    /\ job_pc = "idle"
    /\ job_result # "cleared"
    /\ \E removed \in BOOLEAN :
           IF marker.kind # "absent" /\ removed
           THEN /\ marker' = [kind |-> "absent", date |-> 0]
                /\ successful_runs' = [d \in 1..MaxDay |-> 0]
           ELSE UNCHANGED <<marker, successful_runs>>
    /\ job_result' = "cleared"
    /\ UNCHANGED <<today, job_pc, invocations, call_day>>
    /\ UNCHANGED <<runVars, nonJobVars>>

\* midnight passes, between two operations or during a sleep of run_job
Tick ==
    /\ today < MaxDay
    /\ today' = today + 1
    /\ UNCHANGED <<marker, job_pc, job_result, invocations, call_day>>
    /\ UNCHANGED <<runVars, ghostVars, nonJobVars>>

Next ==
    \/ RunJobSkipped
    \/ RunJobGuardRaises
    \/ RunJobStart
    \/ SetupLoadConfigRaises
    \/ SetupServiceRaises
    \/ SetupDone
    \/ KeywordSearchRaises
    \/ KeywordNoArticles
    \/ KeywordReviewRaises
    \/ KeywordReport
    \/ Finally
    \/ ClearMarker
    \/ Tick

Spec == Init /\ [][Next]_vars

(***************************************************************************)
(* EmailSender.send_email                                                  *)
(***************************************************************************)
\* smtp_code values of an SMTPConnectError: 451 is the transient status
SmtpCodes == {421, 451}

\* values of the account_index argument; given is FALSE for the default None
AccountIndexArgs ==
    {[given |-> FALSE, index |-> 0]} \cup {[given |-> TRUE, index |-> i] : i \in -1..MaxAccounts}

\* the explicit index designates an account
valid_account_index(idx, n) == idx.given /\ 0 <= idx.index /\ idx.index < n

\* faulty variant: the cursor is advanced before the account is read
get_next_account_advance_first(cursor, n) ==
    [account |-> (cursor + 1) % n, cursor |-> (cursor + 1) % n]

\* get_next_account on a sender of n >= 1 accounts: the account returned and
\* the cursor afterwards
get_next_account(cursor, n) ==
    [account |-> cursor, cursor |-> (cursor + 1) % n]

\* faulty variant: every connection error is retried while attempts remain
retry_allowed_any_code(code, att, retries) == att < retries - 1

\* faulty variant: another status code is taken for the transient one
retry_allowed_wrong_code(code, att, retries) == code = 421 /\ att < retries - 1

\* the condition under which an SMTPConnectError is followed by a sleep and a retry
retry_allowed(code, att, retries) == code = 451 /\ att < retries - 1

\* the statements after the try block of iteration attempt when the loop goes on:
\* the next iteration, or the end of the loop and the final error log
NextIteration ==
    /\ attempt' = attempt + 1
    /\ IF attempt + 1 < max_retries
       THEN mail_pc' = "attempt" /\ mail_result' = mail_result
       ELSE mail_pc' = "idle" /\ mail_result' = "exhausted"

InitMail ==
    /\ CacheIdle
    /\ QueueIdle
    /\ TranslateIdle
    /\ ReviewIdle
    /\ ConfigIdle
    /\ StartIdle
    /\ JobIdle([kind |-> "absent", date |-> 0])
    /\ \E n \in 0..MaxAccounts, m \in 0..MaxRetries : MailIdle(n, m)

\* send_email without a valid account_index on a sender without accounts:
\* get_next_account raises ValueError, which leaves send_email
SendEmailNoAccount ==
    /\ mail_pc = "idle"
    /\ sends < MaxSends
    /\ n_accounts = 0
    /\ \E idx \in AccountIndexArgs :
           /\ ~valid_account_index(idx, n_accounts)
           /\ account_index' = idx
    /\ sends' = sends + 1
    /\ mail_result' = "raised"
    /\ attempts_made' = 0
    /\ sendmail_calls' = 0
    /\ sendmail_ok' = 0
    /\ sleeps' = 0
    /\ last_error' = "none"
    /\ UNCHANGED <<n_accounts, max_retries, current_account_index, account, attempt, mail_pc,
                   cursor_sends>>
    /\ UNCHANGED nonMailVars

\* send_email up to the retry loop: the account is chosen once, by the explicit
\* index or by get_next_account, and range(max_retries) is entered or empty
SendEmailBegin ==
    /\ mail_pc = "idle"
    /\ sends < MaxSends
    /\ n_accounts > 0
    /\ \E idx \in AccountIndexArgs :
           /\ account_index' = idx
           /\ IF valid_account_index(idx, n_accounts)
              THEN /\ account' = idx.index
                   /\ UNCHANGED <<current_account_index, cursor_sends>>
              ELSE /\ account' = get_next_account(current_account_index, n_accounts).account
                   /\ current_account_index' =
                          get_next_account(current_account_index, n_accounts).cursor
                   /\ cursor_sends' = Append(cursor_sends, account')
    /\ sends' = sends + 1
    /\ attempt' = 0
    /\ attempts_made' = 0
    /\ sendmail_calls' = 0
    /\ sendmail_ok' = 0
    /\ sleeps' = 0
    /\ last_error' = "none"
    /\ IF 0 < max_retries
       THEN mail_pc' = "attempt" /\ mail_result' = "sending"
       ELSE mail_pc' = "idle" /\ mail_result' = "exhausted"
    /\ UNCHANGED <<n_accounts, max_retries>>
    /\ UNCHANGED nonMailVars

\* an attempt whose connection raises SMTPConnectError with a code for which
\* the sender sleeps and goes on with the next iteration
AttemptRetried ==
    /\ mail_pc = "attempt"
    /\ \E code \in SmtpCodes :
           /\ retry_allowed(code, attempt, max_retries)
           /\ last_error' = IF code = 451 THEN "transient" ELSE "connect"
    /\ attempts_made' = attempts_made + 1
    /\ sleeps' = sleeps + 1
    /\ NextIteration
    /\ UNCHANGED <<n_accounts, max_retries, current_account_index, account, sendmail_calls,
                   sendmail_ok, sends, account_index, cursor_sends>>
    /\ UNCHANGED nonMailVars

\* an attempt whose connection raises SMTPConnectError otherwise: log and return
AttemptConnectError ==
    /\ mail_pc = "attempt"
    /\ \E code \in SmtpCodes :
           /\ ~retry_allowed(code, attempt, max_retries)
           /\ last_error' = IF code = 451 THEN "transient" ELSE "connect"
    /\ attempts_made' = attempts_made + 1
    /\ mail_pc' = "idle"
    /\ mail_result' = "connect_error"
    /\ UNCHANGED <<n_accounts, max_retries, current_account_index, account, attempt,
                   sendmail_calls, sendmail_ok, sleeps, sends, account_index, cursor_sends>>
    /\ UNCHANGED nonMailVars

\* an attempt that raises any other exception, before server.sendmail
\* (connection, starttls, login) or inside it: log and return
AttemptOtherError ==
    /\ mail_pc = "attempt"
    /\ \E in_sendmail \in BOOLEAN :
           sendmail_calls' = sendmail_calls + (IF in_sendmail THEN 1 ELSE 0)
    /\ attempts_made' = attempts_made + 1
    /\ last_error' = "other"
    /\ mail_pc' = "idle"
    /\ mail_result' = "error"
    /\ UNCHANGED <<n_accounts, max_retries, current_account_index, account, attempt,
                   sendmail_ok, sleeps, sends, account_index, cursor_sends>>
    /\ UNCHANGED nonMailVars

\* an attempt in which server.sendmail returns: return
AttemptSent ==
    /\ mail_pc = "attempt"
    /\ attempts_made' = attempts_made + 1
    /\ sendmail_calls' = sendmail_calls + 1
    /\ sendmail_ok' = sendmail_ok + 1
    /\ last_error' = "none"
    /\ mail_pc' = "idle"
    /\ mail_result' = "sent"
    /\ UNCHANGED <<n_accounts, max_retries, current_account_index, account, attempt,
                   sleeps, sends, account_index, cursor_sends>>
    /\ UNCHANGED nonMailVars

NextMail ==
    \/ SendEmailNoAccount
    \/ SendEmailBegin
    \/ AttemptRetried
    \/ AttemptConnectError
    \/ AttemptOtherError
    \/ AttemptSent

SpecMail == InitMail /\ [][NextMail]_vars

(***************************************************************************)
(* load_config: the send delay and the keyword mapping                     *)
(***************************************************************************)
\* faulty variant: the base interval is multiplied by the number of accounts
calculated_interval_times_accounts(base, n) ==
    IF base * 60 * n > 60 THEN base * 60 * n ELSE 60

\* max(60, int((base_minutes * 60) / len(accounts))) for a non-negative quotient
calculated_interval(base, n) ==
    IF (base * 60) \div n > 60 THEN (base * 60) \div n ELSE 60

\* scheduler_config.get('delay_between_emails_sec', 10) when load_config set nothing
DefaultDelayEmails == 10

\* faulty variant: the address is appended whether or not it is in the list
add_email_always(list, email) == Append(list, email)

\* if email not in keyword_to_emails[keyword]: append
add_email(list, email) ==
    IF email \in Range(list) THEN list ELSE Append(list, email)

\* position of keyword in the mapping, 0 when it is not a key
KeyIndex(map, keyword) ==
    IF \E i \in 1..Len(map) : map[i].keyword = keyword
    THEN CHOOSE i \in 1..Len(map) : map[i].keyword = keyword
    ELSE 0

\* one pass of the inner loop: email is subscribed to keyword
add_subscription(map, keyword, email) ==
    LET i == KeyIndex(map, keyword)
    IN  IF i = 0
        THEN Append(map, [keyword |-> keyword, emails |-> add_email(<<>>, email)])
        ELSE [map EXCEPT ![i].emails = add_email(@, email)]

\* for email in emails
RECURSIVE add_emails(_, _, _)
add_emails(map, keyword, emails) ==
    IF emails = <<>> THEN map
    ELSE add_emails(add_subscription(map, keyword, Head(emails)), keyword, Tail(emails))

\* for keyword in keywords
RECURSIVE add_keywords(_, _, _)
add_keywords(map, keywords, emails) ==
    IF keywords = <<>> THEN map
    ELSE add_keywords(add_emails(map, Head(keywords), emails), Tail(keywords), emails)

\* for group in user_groups
RECURSIVE convert_groups(_, _)
convert_groups(map, groups) ==
    IF groups = <<>> THEN map
    ELSE convert_groups(add_keywords(map, Head(groups).keywords, Head(groups).emails),
                        Tail(groups))

convert_user_groups_to_keyword_mapping(groups) == convert_groups(<<>>, groups)

\* validate_user_groups reports an error: a group without emails or without keywords
\* (group names are taken to be present and distinct, addresses well formed)
validate_user_groups(groups) ==
    \E i \in 1..Len(groups) : groups[i].emails = <<>> \/ groups[i].keywords = <<>>

\* the user groups a configuration file is made of
ConfigGroups ==
    { [emails |-> <<"a", "b">>, keywords |-> <<"k1">>],
      [emails |-> <<"b", "c">>, keywords |-> <<"k1", "k2">>],
      [emails |-> <<"a", "a">>, keywords |-> <<"k2">>],
      [emails |-> <<"c">>, keywords |-> <<"k2", "k1">>],
      [emails |-> <<>>, keywords |-> <<"k1">>] }

GroupLists == UNION { [1..m -> ConfigGroups] : m \in 0..MaxGroups }

\* values of smtp.base_interval_minutes
BaseIntervalMinutes == {1, 2, 5, 10}

\* the error_code each exception class hands to its parent's constructor
own_error_code(cls) ==
    CASE cls = "ConfigurationError" -> "CONFIG_ERROR"
      [] cls = "ConfigurationValidationError" -> "CONFIG_VALIDATION_ERROR"
      [] cls = "ConfigurationFileNotFoundError" -> "CONFIG_FILE_NOT_FOUND"

\* the error_code keyword arguments that reach PubMedPushError.__init__ when cls
\* is constructed: ConfigurationError.__init__ passes error_code="CONFIG_ERROR"
\* next to **kwargs, and its subclasses have put their own error_code in kwargs
error_code_arguments(cls) ==
    IF cls = "ConfigurationError"
    THEN <<own_error_code(cls)>>
    ELSE <<own_error_code("ConfigurationError"), own_error_code(cls)>>

\* raise cls(...): the exception that propagates; a call with the keyword
\* error_code given twice is a TypeError and no cls object is made
raise(cls) ==
    IF Len(error_code_arguments(cls)) = 1
    THEN [type |-> cls, error_code |-> error_code_arguments(cls)[1]]
    ELSE [type |-> "TypeError", error_code |-> "none"]

InitConfig ==
    /\ CacheIdle
    /\ QueueIdle
    /\ TranslateIdle
    /\ ReviewIdle
    /\ JobIdle([kind |-> "absent", date |-> 0])
    /\ MailIdle(1, 3)
    /\ StartIdle
    /\ config_exists \in BOOLEAN
    /\ load_error = NoError
    /\ user_groups \in (IF config_exists THEN GroupLists ELSE {<<>>})
    /\ accounts_key \in (IF config_exists THEN BOOLEAN ELSE {FALSE})
    /\ smtp_accounts \in (IF accounts_key THEN 0..MaxCfgAccounts ELSE {0})
    /\ base_minutes \in (IF config_exists THEN BaseIntervalMinutes ELSE {10})
    /\ cfg_pc = "file"
    /\ keyword_to_emails = <<>>
    /\ delay_emails = 0
    /\ prev_delay_emails = 0
    /\ dk_i = 0
    /\ deliveries = <<>>

\* the exception that leaves load_config, in the order of its statements: the
\* file is missing, the division by len(accounts), an invalid user group
load_config_raises(exists, key, n, groups) ==
    IF ~exists THEN raise("ConfigurationFileNotFoundError")
    ELSE IF key /\ n = 0 THEN [type |-> "ZeroDivisionError", error_code |-> "none"]
    ELSE IF validate_user_groups(groups) THEN raise("ConfigurationValidationError")
    ELSE NoError

\* load_config raises
LoadConfigRaises ==
    /\ cfg_pc = "file"
    /\ load_config_raises(config_exists, accounts_key, smtp_accounts, user_groups) # NoError
    /\ load_error' = load_config_raises(config_exists, accounts_key, smtp_accounts, user_groups)
    /\ cfg_pc' = "failed"
    /\ UNCHANGED <<config_exists, user_groups, accounts_key, smtp_accounts, base_minutes,
                   keyword_to_emails, delay_emails, prev_delay_emails, dk_i, deliveries>>
    /\ UNCHANGED nonConfigVars

\* load_config returns, and run_job reads delay_emails and keyword_to_emails
LoadConfig ==
    /\ cfg_pc = "file"
    /\ load_config_raises(config_exists, accounts_key, smtp_accounts, user_groups) = NoError
    /\ delay_emails' = IF accounts_key
                       THEN calculated_interval(base_minutes, smtp_accounts)
                       ELSE DefaultDelayEmails
    /\ keyword_to_emails' = convert_user_groups_to_keyword_mapping(user_groups)
    /\ cfg_pc' = "loaded"
    /\ dk_i' = 1
    /\ UNCHANGED <<config_exists, load_error, user_groups, accounts_key, smtp_accounts,
                   base_minutes, prev_delay_emails, deliveries>>
    /\ UNCHANGED nonConfigVars

\* an account is added to smtp.accounts of the file and load_config is called again
ReloadWithAccountAdded ==
    /\ cfg_pc = "loaded"
    /\ deliveries = <<>>
    /\ accounts_key
    /\ smtp_accounts < MaxCfgAccounts
    /\ smtp_accounts' = smtp_accounts + 1
    /\ prev_delay_emails' = delay_emails
    /\ delay_emails' = calculated_interval(base_minutes, smtp_accounts + 1)
    /\ keyword_to_emails' = convert_user_groups_to_keyword_mapping(user_groups)
    /\ UNCHANGED <<config_exists, load_error, user_groups, accounts_key, base_minutes, cfg_pc,
                   dk_i, deliveries>>
    /\ UNCHANGED nonConfigVars

\* the loop body of run_job is over for keyword dk_i: the record of what it did
\* is kept, and the loop goes on unless an exception left it
KeywordProcessed(found, invoked, outcome) ==
    /\ deliveries' = Append(deliveries, [keyword |-> keyword_to_emails[dk_i].keyword,
                                         found |-> found,
                                         invoked |-> invoked,
                                         outcome |-> outcome])
    /\ IF outcome = "raised" \/ dk_i = Len(keyword_to_emails)
       THEN cfg_pc' = "delivered" /\ dk_i' = dk_i
       ELSE cfg_pc' = cfg_pc /\ dk_i' = dk_i + 1
    /\ UNCHANGED <<config_exists, load_error, user_groups, accounts_key, smtp_accounts,
                   base_minutes, keyword_to_emails, delay_emails, prev_delay_emails>>
    /\ UNCHANGED nonConfigVars

\* the search of keyword dk_i returns no article: continue
DeliverNoArticles ==
    /\ cfg_pc = "loaded"
    /\ dk_i <= Len(keyword_to_emails)
    /\ KeywordProcessed(FALSE, <<>>, "skipped")

\* articles are found and generate_review raises
DeliverReviewRaises ==
    /\ cfg_pc = "loaded"
    /\ dk_i <= Len(keyword_to_emails)
    /\ KeywordProcessed(TRUE, <<>>, "raised")

\* articles are found, the review is made and send_report_email is called for
\* the recipients in list order; raises_at = j > 0 when the j-th call raises
DeliverReports ==
    /\ cfg_pc = "loaded"
    /\ dk_i <= Len(keyword_to_emails)
    /\ LET emails == keyword_to_emails[dk_i].emails
       IN  \E raises_at \in 0..Len(emails) :
               IF raises_at = 0
               THEN KeywordProcessed(TRUE, emails, "delivered")
               ELSE KeywordProcessed(TRUE, SubSeq(emails, 1, raises_at), "raised")

NextConfig ==
    \/ LoadConfigRaises
    \/ LoadConfig
    \/ ReloadWithAccountAdded
    \/ DeliverNoArticles
    \/ DeliverReviewRaises
    \/ DeliverReports

SpecConfig == InitConfig /\ [][NextConfig]_vars

(***************************************************************************)
(* The start of the program and the scheduler                              *)
(***************************************************************************)
\* faulty variant: the catch-up check also fires at the run time itself
run_time_passed_or_now(c) == c \in {"at", "after"}

\* current_time > scheduled_time
run_time_passed(c) == c = "after"

\* the marker file after a run_job call that passed its guard on day d: err says
\* an error occurred, written that the marker write succeeded
marker_after_run(m, d, err, written) ==
    IF should_mark(err) THEN mark_today_as_run(m, d, written) ELSE m

InitStart ==
    /\ CacheIdle
    /\ QueueIdle
    /\ TranslateIdle
    /\ ReviewIdle
    /\ MailIdle(1, 3)
    /\ ConfigIdle
    /\ \E m \in MarkerStates : JobIdle(m)
    /\ flags \in {"none", "force_run", "clear_marker"}
    /\ clock \in {"before", "at", "after", "unknown"}
    /\ start_pc = "start"
    /\ start_config = "none"
    /\ catch_up_check = "none"
    /\ scheduled = FALSE
    /\ startup_calls = 0
    /\ startup_pipeline = FALSE
    /\ sched_calls = 0

\* --clear-marker: clear_daily_run_marker, then sys.exit(0)
StartClearMarker ==
    /\ start_pc = "start"
    /\ flags = "clear_marker"
    /\ \E removed \in BOOLEAN :
           marker' = IF marker.kind # "absent" /\ removed
                     THEN [kind |-> "absent", date |-> 0]
                     ELSE marker
    /\ start_pc' = "exited"
    /\ UNCHANGED <<today, flags, clock, start_config, catch_up_check, scheduled,
                   startup_calls, startup_pipeline, sched_calls>>
    /\ UNCHANGED nonStartVars

\* load_config raises, or run_time does not parse: the exception is logged,
\* nothing is registered and the main loop is entered
StartConfigRaises ==
    /\ start_pc = "start"
    /\ flags # "clear_marker"
    /\ clock = "unknown"
    /\ start_config' = "failed"
    /\ start_pc' = "main_loop"
    /\ UNCHANGED <<today, marker, flags, clock, catch_up_check, scheduled,
                   startup_calls, startup_pipeline, sched_calls>>
    /\ UNCHANGED nonStartVars

\* --force-run: run_job is called whatever the time is
StartForceRun ==
    /\ start_pc = "start"
    /\ flags = "force_run"
    /\ clock # "unknown"
    /\ start_config' = "loaded"
    /\ start_pc' = "invoke"
    /\ UNCHANGED <<today, marker, flags, clock, catch_up_check, scheduled,
                   startup_calls, startup_pipeline, sched_calls>>
    /\ UNCHANGED nonStartVars

\* no flag, the run time has not passed: the job is registered and the main loop entered
StartWaits ==
    /\ start_pc = "start"
    /\ flags = "none"
    /\ clock # "unknown"
    /\ ~run_time_passed(clock)
    /\ start_config' = "loaded"
    /\ scheduled' = TRUE
    /\ start_pc' = "main_loop"
    /\ UNCHANGED <<today, marker, flags, clock, catch_up_check, startup_calls,
                   startup_pipeline, sched_calls>>
    /\ UNCHANGED nonStartVars

\* no flag, the run time has passed: has_run_today decides; when it raises the
\* exception is logged and nothing is registered
StartCatchUp ==
    /\ start_pc = "start"
    /\ flags = "none"
    /\ clock # "unknown"
    /\ run_time_passed(clock)
    /\ start_config' = "loaded"
    /\ catch_up_check' = has_run_today(marker, today)
    /\ CASE has_run_today(marker, today) = "true" ->
                start_pc' = "main_loop" /\ scheduled' = TRUE
         [] has_run_today(marker, today) = "false" ->
                start_pc' = "invoke" /\ scheduled' = scheduled
         [] has_run_today(marker, today) = "raise" ->
                start_pc' = "main_loop" /\ scheduled' = scheduled
    /\ UNCHANGED <<today, marker, flags, clock, startup_calls, startup_pipeline, sched_calls>>
    /\ UNCHANGED nonStartVars

\* the run_job call of the start code, as one step: the guard returns at once
\* when today's marker exists; an exception of the guard leaves run_job and
\* nothing is registered; otherwise the pipeline runs and the job is registered
StartupRunJob ==
    /\ start_pc = "invoke"
    /\ startup_calls' = startup_calls + 1
    /\ CASE has_run_today(marker, today) = "true" ->
                /\ marker' = marker
                /\ startup_pipeline' = FALSE
                /\ scheduled' = TRUE
         [] has_run_today(marker, today) = "raise" ->
                /\ marker' = marker
                /\ startup_pipeline' = FALSE
                /\ scheduled' = FALSE
         [] has_run_today(marker, today) = "false" ->
                /\ \E err, written \in BOOLEAN :
                       marker' = marker_after_run(marker, today, err, written)
                /\ startup_pipeline' = TRUE
                /\ scheduled' = TRUE
    /\ start_pc' = "main_loop"
    /\ UNCHANGED <<today, flags, clock, start_config, catch_up_check, sched_calls>>
    /\ UNCHANGED nonStartVars

\* schedule.run_pending calls run_job; an exception of the guard is logged by
\* the main loop
ScheduledRunJob ==
    /\ start_pc = "main_loop"
    /\ scheduled
    /\ sched_calls < MaxRuns
    /\ sched_calls' = sched_calls + 1
    /\ IF has_run_today(marker, today) = "false"
       THEN \E err, written \in BOOLEAN :
                marker' = marker_after_run(marker, today, err, written)
       ELSE marker' = marker
    /\ UNCHANGED <<today, flags, clock, start_pc, start_config, catch_up_check, scheduled,
                   startup_calls, startup_pipeline>>
    /\ UNCHANGED nonStartVars

\* midnight passes, before the run_job call of the start code or in the main loop
StartTick ==
    /\ start_pc \in {"invoke", "main_loop"}
    /\ today < MaxDay
    /\ today' = today + 1
    /\ UNCHANGED <<marker, startVars>>
    /\ UNCHANGED nonStartVars

NextStart ==
    \/ StartClearMarker
    \/ StartConfigRaises
    \/ StartForceRun
    \/ StartWaits
    \/ StartCatchUp
    \/ StartupRunJob
    \/ ScheduledRunJob
    \/ StartTick

SpecStart == InitStart /\ [][NextStart]_vars

(***************************************************************************)
(* PubMedProcessor.translate_abstracts_in_batch                            *)
(***************************************************************************)
\* values of translated_abstract the function finds
FoundAbstracts == {"none", "empty", "preset"}

\* the three failure texts the function writes
FailureSentinels == {"default", "format_error", "exception_error"}

\* a.get('translated_abstract') is falsy
untranslated(v) == v \in {"none", "empty"}

\* faulty variant: every article is translated again
articles_to_translate_all(arts) == [p \in 1..Len(arts) |-> p]

\* the articles not handled yet, as positions in list order
articles_to_translate(arts) ==
    LET RECURSIVE Keep(_)
        Keep(p) == IF p > Len(arts) THEN <<>>
                   ELSE IF untranslated(arts[p]) THEN <<p>> \o Keep(p + 1)
                   ELSE Keep(p + 1)
    IN  Keep(1)

\* articles_to_translate[i:i + batch_size] for the 0-based i
batch_at(queue, i, size) ==
    SubSeq(queue, i + 1, IF i + size < Len(queue) THEN i + size ELSE Len(queue))

\* the fields after value v was assigned to every article of the batch
assign_batch(arts, batch, v) ==
    [p \in 1..Len(arts) |-> IF p \in Range(batch) THEN v ELSE arts[p]]

\* the batch went through: part j, stripped, goes to article j; blank tells
\* which parts are empty after the strip
assign_parts(arts, batch, blank) ==
    [p \in 1..Len(arts) |->
        IF p \in Range(batch)
        THEN IF p \in blank THEN "empty" ELSE "translated"
        ELSE arts[p]]

\* the for statement moves on to the next batch or ends
next_batch(pc_after) ==
    /\ tr_i' = tr_i + tr_batch_size
    /\ tr_pc' = IF tr_i + tr_batch_size < Len(tr_queue) THEN "loop" ELSE pc_after

InitTranslate ==
    /\ CacheIdle
    /\ QueueIdle
    /\ ReviewIdle
    /\ JobIdle([kind |-> "absent", date |-> 0])
    /\ MailIdle(1, 3)
    /\ ConfigIdle
    /\ StartIdle
    /\ \E n \in 0..MaxTranslate : tr_articles \in [1..n -> FoundAbstracts]
    /\ tr_initial = tr_articles
    /\ tr_batch_size \in 0..MaxBatchSize
    /\ tr_template \in BOOLEAN
    /\ tr_queue = <<>>
    /\ tr_i = 0
    /\ tr_pc = "call"
    /\ tr_error = "none"
    /\ tr_batches = <<>>

\* the call up to the for statement: the filter, the default failure text, and
\* range(0, len, batch_size), which raises ValueError for a step of 0
TranslateBegin ==
    /\ tr_pc = "call"
    /\ tr_queue' = articles_to_translate(tr_articles)
    /\ tr_articles' = assign_batch(tr_articles, tr_queue', "default")
    /\ tr_i' = 0
    /\ IF tr_batch_size = 0
       THEN tr_pc' = "raised" /\ tr_error' = "ValueError"
       ELSE /\ tr_pc' = IF tr_queue' = <<>> THEN "returned" ELSE "loop"
            /\ tr_error' = "none"
    /\ UNCHANGED <<tr_initial, tr_batch_size, tr_template, tr_batches>>
    /\ UNCHANGED nonTranslateVars

\* the prompt template is looked up in front of the try statement
BatchTemplateMissing ==
    /\ tr_pc = "loop"
    /\ ~tr_template
    /\ tr_pc' = "raised"
    /\ tr_error' = "KeyError"
    /\ UNCHANGED <<tr_articles, tr_initial, tr_batch_size, tr_template, tr_queue, tr_i,
                   tr_batches>>
    /\ UNCHANGED nonTranslateVars

\* the translator returned as many parts as articles were sent
BatchTranslated ==
    /\ tr_pc = "loop"
    /\ tr_template
    /\ LET batch == batch_at(tr_queue, tr_i, tr_batch_size)
       IN  \E blank \in {{}, {batch[1]}} :
             /\ tr_articles' = assign_parts(tr_articles, batch, blank)
             /\ tr_batches' = Append(tr_batches, [sent |-> batch, outcome |-> "parts_match"])
    /\ next_batch("returned")
    /\ UNCHANGED <<tr_initial, tr_batch_size, tr_template, tr_queue, tr_error>>
    /\ UNCHANGED nonTranslateVars

\* the translator returned another number of parts
BatchMismatch ==
    /\ tr_pc = "loop"
    /\ tr_template
    /\ LET batch == batch_at(tr_queue, tr_i, tr_batch_size)
       IN  \E parts \in (1..(MaxBatchSize + 1)) \ {Len(batch)} :
             /\ tr_articles' = assign_batch(tr_articles, batch, "format_error")
             /\ tr_batches' = Append(tr_batches, [sent |-> batch, outcome |-> "parts_differ"])
    /\ next_batch("returned")
    /\ UNCHANGED <<tr_initial, tr_batch_size, tr_template, tr_queue, tr_error>>
    /\ UNCHANGED nonTranslateVars

\* generate raised, or returned something split cannot be called on
BatchTranslatorRaises ==
    /\ tr_pc = "loop"
    /\ tr_template
    /\ LET batch == batch_at(tr_queue, tr_i, tr_batch_size)
       IN  /\ tr_articles' = assign_batch(tr_articles, batch, "exception_error")
           /\ tr_batches' = Append(tr_batches, [sent |-> batch, outcome |-> "raised"])
    /\ next_batch("returned")
    /\ UNCHANGED <<tr_initial, tr_batch_size, tr_template, tr_queue, tr_error>>
    /\ UNCHANGED nonTranslateVars

NextTranslate ==
    \/ TranslateBegin
    \/ BatchTemplateMissing
    \/ BatchTranslated
    \/ BatchMismatch
    \/ BatchTranslatorRaises

SpecTranslate == InitTranslate /\ [][NextTranslate]_vars

(***************************************************************************)
(* EmailQueue                                                              *)
(* The caller's thread enqueues, reads the statistics and retries; each    *)
(* worker thread runs process_batch again and again.  The statements under *)
(* self.lock are one step each.                                            *)
(***************************************************************************)
\* EmailTask.max_attempts
DefaultMaxAttempts == 3

\* max_queue_size of the constructor
DefaultMaxQueueSize == 10000

\* the priority argument of the enqueue calls followed: the default
EnqueuePriorities == {0}

\* batch sizes of the queues followed
QueueBatchSizes == {2}

\* the sort key of enqueue orders a before b, or the two are equal
key_le(a, b) ==
    \/ a.priority > b.priority
    \/ a.priority = b.priority /\ a.created_at <= b.created_at

\* sorted(..., key=lambda x: (-x.priority, x.created_at)): stable
RECURSIVE sorted_by_priority(_)
sorted_by_priority(q) ==
    IF q = <<>> THEN <<>>
    ELSE LET r == sorted_by_priority(SubSeq(q, 1, Len(q) - 1))
             x == q[Len(q)]
             k == Cardinality({j \in 1..Len(r) : key_le(r[j], x)})
         IN  SubSeq(r, 1, k) \o <<x>> \o SubSeq(r, k + 1, Len(r))

\* faulty variant: nothing is taken until a whole batch is due
batch_length_full_batches_only(q, size, current_time) ==
    IF Len(q) >= size /\ \A k \in 1..size : q[k].delay_until <= current_time
    THEN size
    ELSE 0

\* the loop of process_batch: how many tasks leave the left end of q
RECURSIVE batch_length(_, _, _)
batch_length(q, size, current_time) ==
    IF size = 0 \/ q = <<>> \/ Head(q).delay_until > current_time THEN 0
    ELSE 1 + batch_length(Tail(q), size - 1, current_time)

\* faulty variant: the tasks of the batch stay in pending_queue
pending_after_take_no_popleft(q, n) == q

\* pending_queue after the loop of process_batch took n tasks: popleft each time
pending_after_take(q, n) == SubSeq(q, n + 1, Len(q))

\* faulty variant: one attempt more is allowed
attempts_exhausted_one_late(task) == task.attempts > DefaultMaxAttempts

\* task.attempts >= task.max_attempts, after the increment for the failure
attempts_exhausted(task) == task.attempts >= DefaultMaxAttempts

\* faulty variant: the attempt counter is kept
reset_for_retry_keep_attempts(task, now) == [task EXCEPT !.delay_until = now]

\* retry_failed_tasks: the task as it is appended to pending_queue
reset_for_retry(task, now) == [task EXCEPT !.attempts = 0, !.delay_until = now]

InitQueue ==
    /\ CacheIdle
    /\ ReviewIdle
    /\ JobIdle([kind |-> "absent", date |-> 0])
    /\ MailIdle(1, 3)
    /\ ConfigIdle
    /\ StartIdle
    /\ TranslateIdle
    /\ \E b \in QueueBatchSizes : QueueFresh(b, 1)

\* one worker thread goes from state old to state new
worker_step(old, new) ==
    workers' = (workers (-) SetToBag({old})) (+) SetToBag({new})

\* enqueue, under the lock; created_at is the clock reading of the call, which
\* grows from call to call: the task keeps its rank among the calls
Enqueue ==
    /\ enqueue_calls < MaxTasks
    /\ Len(pending_queue) < DefaultMaxQueueSize
    /\ \E priority \in EnqueuePriorities :
         LET task == [id |-> enqueue_calls + 1, priority |-> priority,
                      created_at |-> enqueue_calls + 1, attempts |-> 0, delay_until |-> 0]
             appended == Append(pending_queue, task)
         IN  /\ pending_queue' = sorted_by_priority(appended)
             /\ q_stats' = [q_stats EXCEPT !.enqueued = @ + 1, !.queue_size = Len(appended)]
    /\ enqueue_calls' = enqueue_calls + 1
    /\ main_last' = "enqueue"
    /\ observed' = Unread
    /\ UNCHANGED <<processing_queue, failed_queue, batch_size, retry_delay, q_now, workers,
                   retry_calls, retry_result, sent_ok>>
    /\ UNCHANGED nonQueueVars

\* the caller reads len(pending_queue) and get_queue_stats() after enqueue returned
GetQueueStats ==
    /\ main_last = "enqueue"
    /\ observed' = [read |-> TRUE, calls |-> enqueue_calls,
                    pending_len |-> Len(pending_queue),
                    pending_size |-> Len(pending_queue),
                    enqueued |-> q_stats.enqueued]
    /\ main_last' = "stats"
    /\ UNCHANGED <<pending_queue, processing_queue, failed_queue, q_stats, batch_size,
                   retry_delay, q_now, workers, enqueue_calls, retry_calls, retry_result,
                   sent_ok>>
    /\ UNCHANGED nonQueueVars

\* retry_failed_tasks, under the lock
RetryFailedTasks ==
    /\ retry_calls < MaxRetryCalls
    /\ pending_queue' = pending_queue \o
           [k \in 1..Len(failed_queue) |-> reset_for_retry(failed_queue[k], q_now)]
    /\ failed_queue' = <<>>
    /\ retry_result' = Len(failed_queue)
    /\ q_stats' = IF Len(failed_queue) > 0
                  THEN [q_stats EXCEPT !.queue_size = Len(pending_queue')]
                  ELSE q_stats
    /\ retry_calls' = retry_calls + 1
    /\ main_last' = "retry"
    /\ observed' = Unread
    /\ UNCHANGED <<processing_queue, batch_size, retry_delay, q_now, workers, enqueue_calls,
                   sent_ok>>
    /\ UNCHANGED nonQueueVars

\* process_batch up to the end of its first locked block: the queue is not
\* empty, the clock is read and the batch leaves pending_queue; with no task
\* that is due the call returns 0 and nothing has changed
WorkerTake ==
    /\ BagIn(IdleWorker, workers)
    /\ LET n == batch_length(pending_queue, batch_size, q_now)
           batch == SubSeq(pending_queue, 1, n)
       IN  /\ n > 0
           /\ pending_queue' = pending_after_take(pending_queue, n)
           /\ processing_queue' = processing_queue \cup {batch[k].id : k \in 1..n}
           /\ worker_step(IdleWorker,
                          [pc |-> "sending", batch |-> batch, current_time |-> q_now])
    /\ UNCHANGED <<failed_queue, q_stats, batch_size, retry_delay, q_now, enqueue_calls,
                   retry_calls, retry_result, main_last, observed, sent_ok>>
    /\ UNCHANGED nonQueueVars

\* _send_email returned for the next task of the batch
WorkerSent ==
    /\ \E w \in BagToSet(workers) :
         /\ w.pc = "sending"
         /\ LET task == Head(w.batch)
                tried == [task EXCEPT !.attempts = @ + 1]
            IN  /\ processing_queue' = processing_queue \ {task.id}
                /\ \E success \in BOOLEAN :
                     IF success
                     THEN /\ q_stats' = [q_stats EXCEPT !.processed = @ + 1]
                          /\ sent_ok' = sent_ok \cup {task.id}
                          /\ UNCHANGED <<pending_queue, failed_queue>>
                     ELSE IF attempts_exhausted(tried)
                     THEN /\ failed_queue' = Append(failed_queue, tried)
                          /\ q_stats' = [q_stats EXCEPT !.failed = @ + 1]
                          /\ UNCHANGED <<pending_queue, sent_ok>>
                     ELSE /\ pending_queue' = Append(pending_queue,
                                 [tried EXCEPT !.delay_until = w.current_time + retry_delay])
                          /\ q_stats' = [q_stats EXCEPT !.retried = @ + 1]
                          /\ UNCHANGED <<failed_queue, sent_ok>>
         /\ worker_step(w, IF Len(w.batch) = 1 THEN ClosingWorker
                           ELSE [w EXCEPT !.batch = Tail(@)])
    /\ UNCHANGED <<batch_size, retry_delay, q_now, enqueue_calls, retry_calls, retry_result,
                   main_last, observed>>
    /\ UNCHANGED nonQueueVars

\* the last statement of process_batch, under the lock
WorkerClose ==
    /\ \E w \in BagToSet(workers) :
         /\ w.pc = "closing"
         /\ worker_step(w, IdleWorker)
    /\ q_stats' = [q_stats EXCEPT !.queue_size = Len(pending_queue)]
    /\ UNCHANGED <<pending_queue, processing_queue, failed_queue, batch_size, retry_delay, q_now,
                   enqueue_calls, retry_calls, retry_result, main_last, observed, sent_ok>>
    /\ UNCHANGED nonQueueVars

\* WorkerSent while the counters of stats that count _send_email results, which
\* grow without bound, are below MaxSendResults
WorkerSentCounted ==
    /\ q_stats.processed + q_stats.failed + q_stats.retried < MaxSendResults
    /\ WorkerSent

QueueTick ==
    /\ q_now < MaxQTime
    /\ q_now' = q_now + 1
    /\ UNCHANGED <<pending_queue, processing_queue, failed_queue, q_stats, batch_size,
                   retry_delay, workers, enqueue_calls, retry_calls, retry_result, main_last,
                   observed, sent_ok>>
    /\ UNCHANGED nonQueueVars

NextQueue ==
    \/ Enqueue
    \/ GetQueueStats
    \/ RetryFailedTasks
    \/ WorkerTake
    \/ WorkerSentCounted
    \/ WorkerClose
    \/ QueueTick

SpecQueue == InitQueue /\ [][NextQueue]_vars

(***************************************************************************)
(* EmailQueue with worker threads that keep running and a clock that keeps *)
(* advancing: past MaxQTime the time stamps are kept relative to the clock *)
(***************************************************************************)
\* a time stamp one second further in the past; a stamp that lies retry_delay
\* or more behind the clock stays: a delay_until that old has elapsed, and a
\* clock reading that old gives a retry delay that has elapsed
one_second_older(t) == IF t > q_now - retry_delay THEN t - 1 ELSE t

\* the delay of a task after one more second
task_one_second_later(task) == [task EXCEPT !.delay_until = one_second_older(@)]

\* a worker thread after one more second
worker_one_second_later(w) ==
    [pc |-> w.pc,
     batch |-> [k \in DOMAIN w.batch |-> task_one_second_later(w.batch[k])],
     current_time |-> one_second_older(w.current_time)]

\* one second passes while the clock reads MaxQTime: instead of the clock
\* going up, every time stamp goes down
QueueTimeShift ==
    /\ q_now = MaxQTime
    /\ pending_queue' = [k \in DOMAIN pending_queue |-> task_one_second_later(pending_queue[k])]
    /\ failed_queue' = [k \in DOMAIN failed_queue |-> task_one_second_later(failed_queue[k])]
    /\ workers' = BagOfAll(worker_one_second_later, workers)
    /\ UNCHANGED <<processing_queue, q_stats, batch_size, retry_delay, q_now, enqueue_calls,
                   retry_calls, retry_result, main_last, observed, sent_ok>>
    /\ UNCHANGED nonQueueVars

\* the queue is constructed when the clock reads MaxQTime
InitQueueFair ==
    /\ CacheIdle
    /\ ReviewIdle
    /\ JobIdle([kind |-> "absent", date |-> 0])
    /\ MailIdle(1, 3)
    /\ ConfigIdle
    /\ StartIdle
    /\ TranslateIdle
    /\ \E b \in QueueBatchSizes : QueueFreshAt(b, 1, MaxQTime)

NextQueueFair ==
    \/ Enqueue
    \/ WorkerTake
    \/ WorkerSent
    \/ WorkerClose
    \/ QueueTimeShift

\* the worker threads loop for ever over process_batch and time.sleep, and
\* the clock advances
SpecQueueFair ==
    /\ InitQueueFair
    /\ [][NextQueueFair]_vars
    /\ WF_vars(WorkerTake)
    /\ WF_vars(WorkerSent)
    /\ WF_vars(WorkerClose)
    /\ WF_vars(QueueTimeShift)

(***************************************************************************)
(* CacheManager                                                            *)
(* The cache of one process without entries loaded from the database; the  *)
(* hit, miss and eviction counters and hit_count are left out.             *)
(***************************************************************************)
\* cached values and results of the decorated function
CacheValues == {"None", "a"}

\* the ttl argument of set: left out, or 0 seconds
TtlArgs == {[given |-> FALSE, ttl |-> 0], [given |-> TRUE, ttl |-> 0]}

\* the keys of the entries of a cache
cached_keys(cache) == {cache[i].key : i \in DOMAIN cache}

\* the entry of key k (k is cached)
entry_of(cache, k) == cache[CHOOSE i \in DOMAIN cache : cache[i].key = k]

\* del self.memory_cache[key] for the keys ks
without_keys(cache, ks) == SelectSeq(cache, LAMBDA e : e.key \notin ks)

\* self.memory_cache[key] = entry: a cached key keeps its place in the dict
with_entry(cache, e) ==
    IF e.key \in cached_keys(cache)
    THEN [i \in DOMAIN cache |-> IF cache[i].key = e.key THEN e ELSE cache[i]]
    ELSE Append(cache, e)

\* faulty variant: an entry is dead from its expiry time on
expired_at_deadline(e, now) == now >= e.expires_at

\* time.time() > entry.expires_at
expired(e, now) == now > e.expires_at

\* the sort key of the eviction: x.last_accessed or x.created_at
lru_key(e) == IF e.last_accessed # 0 THEN e.last_accessed ELSE e.created_at

\* sorted(self.memory_cache.values(), key=...): stable
RECURSIVE sorted_entries(_)
sorted_entries(cache) ==
    IF cache = <<>> THEN <<>>
    ELSE LET r == sorted_entries(SubSeq(cache, 1, Len(cache) - 1))
             x == cache[Len(cache)]
             k == Cardinality({j \in 1..Len(r) : lru_key(r[j]) <= lru_key(x)})
         IN  SubSeq(r, 1, k) \o <<x>> \o SubSeq(r, k + 1, Len(r))

\* int(self.max_size * 0.2)
evict_count(m) == (m * 2) \div 10

\* the keys _evict_if_needed removes
evicted_keys(cache, m) ==
    IF Len(cache) >= m
    THEN {sorted_entries(cache)[i].key : i \in 1..evict_count(m)}
    ELSE {}

\* set: the entry is stored, then _evict_if_needed runs
cache_set(cache, k, v, ttl, now, m) ==
    LET stored == with_entry(cache, [key |-> k, value |-> v, created_at |-> now,
                                     expires_at |-> now + ttl, last_accessed |-> 0])
    IN  without_keys(stored, evicted_keys(stored, m))

\* get: the cache afterwards and the value returned
cache_get(cache, k, now) ==
    IF k \notin cached_keys(cache) THEN [cache |-> cache, result |-> "None"]
    ELSE IF expired(entry_of(cache, k), now)
    THEN [cache |-> without_keys(cache, {k}), result |-> "None"]
    ELSE [cache |-> with_entry(cache, [entry_of(cache, k) EXCEPT !.last_accessed = now]),
          result |-> entry_of(cache, k).value]

\* the record of the most recent set per key after a set of key k
latest_after_set(cache_before, cache_after, k, v, ttl, now, by_call) ==
    [j \in CacheKeys |->
        IF j = k /\ j \in cached_keys(cache_after)
        THEN [state |-> "set", value |-> v, expires_at |-> now + ttl, by_call |-> by_call]
        ELSE IF j \in (cached_keys(cache_before) \cup {k}) \ cached_keys(cache_after)
        THEN [latest[j] EXCEPT !.state = "evicted"]
        ELSE latest[j]]

InitCache ==
    /\ ReviewIdle
    /\ JobIdle([kind |-> "absent", date |-> 0])
    /\ MailIdle(1, 3)
    /\ ConfigIdle
    /\ StartIdle
    /\ TranslateIdle
    /\ QueueIdle
    /\ \E m \in 1..MaxCacheSize : CacheFresh(m, 1)

\* one more call is made
count_call == cache_ops < MaxCacheOps /\ cache_ops' = cache_ops + 1

CacheSet ==
    /\ count_call
    /\ \E k \in CacheKeys, v \in CacheValues, t \in TtlArgs :
         LET ttl == IF t.given THEN t.ttl ELSE default_ttl
         IN  /\ memory_cache' = cache_set(memory_cache, k, v, ttl, c_now, max_size)
             /\ latest' = latest_after_set(memory_cache, memory_cache', k, v, ttl, c_now, FALSE)
             /\ last_call' = [NoCall EXCEPT !.op = "set", !.key = k]
    /\ UNCHANGED <<max_size, default_ttl, c_now>>
    /\ UNCHANGED nonCacheVars
    /\ UNCHANGED <<store, save_threads>>

CacheGet ==
    /\ count_call
    /\ \E k \in CacheKeys :
         LET g == cache_get(memory_cache, k, c_now)
         IN  /\ memory_cache' = g.cache
             /\ last_call' = [NoCall EXCEPT !.op = "get", !.key = k, !.result = g.result]
    /\ UNCHANGED <<max_size, default_ttl, c_now, latest>>
    /\ UNCHANGED nonCacheVars
    /\ UNCHANGED <<store, save_threads>>

CacheDelete ==
    /\ count_call
    /\ \E k \in CacheKeys :
         /\ memory_cache' = without_keys(memory_cache, {k})
         /\ last_call' = [NoCall EXCEPT !.op = "delete", !.key = k,
                                        !.flag = (k \in cached_keys(memory_cache))]
         /\ latest' = [latest EXCEPT ![k].state = "deleted"]
    /\ UNCHANGED <<max_size, default_ttl, c_now>>
    /\ UNCHANGED nonCacheVars
    /\ UNCHANGED <<store, save_threads>>

CacheClear ==
    /\ count_call
    /\ memory_cache' = <<>>
    /\ last_call' = [NoCall EXCEPT !.op = "clear"]
    /\ latest' = [k \in CacheKeys |-> [latest[k] EXCEPT !.state = "cleared"]]
    /\ UNCHANGED <<max_size, default_ttl, c_now>>
    /\ UNCHANGED nonCacheVars
    /\ UNCHANGED <<store, save_threads>>

\* cleanup_expired, called by the caller or by the cleanup thread
CleanupExpired ==
    /\ count_call
    /\ LET expired_keys == {k \in cached_keys(memory_cache) :
                               expired(entry_of(memory_cache, k), c_now)}
       IN  /\ memory_cache' = without_keys(memory_cache, expired_keys)
           /\ last_call' = [NoCall EXCEPT !.op = "cleanup",
                                          !.count = Cardinality(expired_keys)]
    /\ UNCHANGED <<max_size, default_ttl, c_now, latest>>
    /\ UNCHANGED nonCacheVars
    /\ UNCHANGED <<store, save_threads>>

\* a call of a function decorated with cache_result(ttl=None); k is the key
\* _generate_key gives for the arguments of the call
CachedCall ==
    /\ count_call
    /\ \E k \in CacheKeys :
         LET g == cache_get(memory_cache, k, c_now)
         IN  IF g.result # "None"
             THEN /\ memory_cache' = g.cache
                  /\ last_call' = [NoCall EXCEPT !.op = "call", !.key = k,
                                                 !.result = g.result]
                  /\ UNCHANGED latest
             ELSE \/ \E r \in CacheValues :
                       /\ memory_cache' = cache_set(g.cache, k, r, default_ttl, c_now,
                                                    max_size)
                       /\ latest' = latest_after_set(g.cache, memory_cache', k, r,
                                                     default_ttl, c_now, TRUE)
                       /\ last_call' = [NoCall EXCEPT !.op = "call", !.key = k,
                                                      !.result = r, !.executed = TRUE]
                  \/ /\ memory_cache' = g.cache
                     /\ last_call' = [NoCall EXCEPT !.op = "call", !.key = k,
                                                    !.result = "raised", !.executed = TRUE]
                     /\ UNCHANGED latest
    /\ UNCHANGED <<max_size, default_ttl, c_now>>
    /\ UNCHANGED nonCacheVars
    /\ UNCHANGED <<store, save_threads>>

CacheTick ==
    /\ c_now <= MaxCTime
    /\ c_now' = c_now + 1
    /\ UNCHANGED <<memory_cache, max_size, default_ttl, cache_ops, last_call, latest>>
    /\ UNCHANGED nonCacheVars
    /\ UNCHANGED <<store, save_threads>>

NextCache ==
    \/ CacheSet
    \/ CacheGet
    \/ CacheDelete
    \/ CacheClear
    \/ CleanupExpired
    \/ CachedCall
    \/ CacheTick

SpecCache == InitCache /\ [][NextCache]_vars

(***************************************************************************)
(* CacheManager with enable_persistence: the cache_entries table           *)
(***************************************************************************)
\* _remove_from_database(key) for the keys ks, in the thread of the caller
remove_from_database(db, ks) == [k \in CacheKeys |-> IF k \in ks THEN "absent" ELSE db[k]]

\* _save_to_database(entry): INSERT OR REPLACE
save_to_database(db, e) == [db EXCEPT ![e.key] = e.value]

\* threading.Thread(target=self._save_to_database, args=(entry,)).start()
start_save_thread(e) == save_threads (+) SetToBag({[key |-> e.key, value |-> e.value]})

\* set: the entry is stored, _evict_if_needed removes the evicted keys from
\* the table, and a thread is started to save the entry
StoreSet ==
    /\ count_call
    /\ \E k \in CacheKeys, v \in CacheValues, t \in TtlArgs :
         LET ttl == IF t.given THEN t.ttl ELSE default_ttl
             stored == with_entry(memory_cache, [key |-> k, value |-> v, created_at |-> c_now,
                                                 expires_at |-> c_now + ttl,
                                                 last_accessed |-> 0])
         IN  /\ memory_cache' = cache_set(memory_cache, k, v, ttl, c_now, max_size)
             /\ store' = remove_from_database(store, evicted_keys(stored, max_size))
             /\ save_threads' = start_save_thread([key |-> k, value |-> v])
    /\ UNCHANGED <<max_size, default_ttl, c_now, last_call, latest>>
    /\ UNCHANGED nonCacheVars

\* get: an expired entry is removed from the cache and from the table; a hit
\* starts a thread to save the entry with its new access data
StoreGet ==
    /\ count_call
    /\ \E k \in CacheKeys :
         LET g == cache_get(memory_cache, k, c_now)
         IN  /\ memory_cache' = g.cache
             /\ IF k \notin cached_keys(memory_cache)
                THEN UNCHANGED <<store, save_threads>>
                ELSE IF expired(entry_of(memory_cache, k), c_now)
                THEN /\ store' = remove_from_database(store, {k})
                     /\ UNCHANGED save_threads
                ELSE /\ save_threads' = start_save_thread(entry_of(memory_cache, k))
                     /\ UNCHANGED store
    /\ UNCHANGED <<max_size, default_ttl, c_now, last_call, latest>>
    /\ UNCHANGED nonCacheVars

\* delete: a cached key is removed from the cache and from the table; for a
\* key that is not cached nothing is done
StoreDelete ==
    /\ count_call
    /\ \E k \in CacheKeys :
         /\ memory_cache' = without_keys(memory_cache, {k})
         /\ store' = IF k \in cached_keys(memory_cache)
                     THEN remove_from_database(store, {k})
                     ELSE store
    /\ UNCHANGED <<max_size, default_ttl, c_now, last_call, latest, save_threads>>
    /\ UNCHANGED nonCacheVars

\* a save thread runs: it takes no lock
SaveThreadRuns ==
    /\ \E e \in BagToSet(save_threads) :
         /\ store' = save_to_database(store, e)
         /\ save_threads' = save_threads (-) SetToBag({e})
    /\ UNCHANGED <<memory_cache, max_size, default_ttl, c_now, cache_ops, last_call, latest>>
    /\ UNCHANGED nonCacheVars

NextStore ==
    \/ StoreSet
    \/ StoreGet
    \/ StoreDelete
    \/ SaveThreadRuns
    \/ CacheTick

SpecStore == InitCache /\ [][NextStore]_vars

(***************************************************************************)
(* Properties of the reconciliation                                        *)
(***************************************************************************)
\* the numbers cited in the body of the call, in text order
BodyCitations == citations_in_order(split_body(review_text))

\* the cited numbers that designate an article
ValidCited == {o \in Range(BodyCitations) : 1 <= o /\ o <= n_articles}

\* position of the first citation of o in the body
FirstCited(o) == CHOOSE k \in 1..Len(BodyCitations) :
                     BodyCitations[k] = o /\ \A j \in 1..(k - 1) : BodyCitations[j] # o

\* C1: a cited number that is 0 or greater than the number of articles is
\* neither in sorted_articles nor in the renumbering map, and each of its
\* occurrences in the rewritten body still shows the original number.
C1_OutOfRangeKeepsNumber ==
    rv_pc = "done" =>
        LET out == citations_in_order(new_body)
        IN  \A k \in 1..Len(BodyCitations) :
                LET o == BodyCitations[k]
                IN  ~(1 <= o /\ o <= n_articles) =>
                        /\ o \notin Range(sorted_articles)
                        /\ o \notin DOMAIN ref_map
                        /\ Len(out) = Len(BodyCitations)
                        /\ out[k] = o

\* C2: when the body cites something, sorted_articles has one entry per distinct
\* cited number and the article at position i carries citation_index i.
C2_ContiguousIndices ==
    (rv_pc = "done" /\ BodyCitations # <<>>) =>
        /\ Len(sorted_articles) = Cardinality(Range(BodyCitations))
        /\ \A i \in 1..Len(sorted_articles) : citation_index[sorted_articles[i]] = i

\* C3: every validly cited article is in sorted_articles exactly once, the
\* articles are in the order of the first citation of each, and a body that
\* cites something selects nothing else; citations 3,1,3,2 over five articles
\* give articles 3,1,2 with citation_index 1,2,3.
C3_FirstAppearanceOrder ==
    rv_pc = "done" =>
        /\ \A o \in ValidCited :
               Cardinality({i \in 1..Len(sorted_articles) : sorted_articles[i] = o}) = 1
        /\ BodyCitations # <<>> =>
               /\ Range(sorted_articles) = ValidCited
               /\ \A i, j \in 1..Len(sorted_articles) :
                      i < j => FirstCited(sorted_articles[i]) < FirstCited(sorted_articles[j])
        /\ (BodyCitations = <<3, 1, 3, 2>> /\ n_articles = 5) =>
               /\ sorted_articles = <<3, 1, 2>>
               /\ citation_index[3] = 1 /\ citation_index[1] = 2 /\ citation_index[2] = 3

C3_Witness ==
    /\ rv_pc = "done"
    /\ BodyCitations = <<3, 1, 3, 2>>
    /\ n_articles = 5
    /\ sorted_articles = <<3, 1, 2>>

\* C4: a body without citation marker returns the whole article list in its
\* original order, citation_index equal to the 1-based position, and the body
\* as it was after stripping.
C4_UncitedReturnsAll ==
    (rv_pc = "done" /\ BodyCitations = <<>>) =>
        /\ sorted_articles = [p \in 1..n_articles |-> p]
        /\ \A p \in 1..n_articles : citation_index[p] = p
        /\ new_body = split_body(review_text)

C4_Witness ==
    /\ rv_pc = "done"
    /\ BodyCitations = <<>>
    /\ n_articles >= 2
    /\ Len(new_body) > 0
    /\ citations_in_order(review_text) # <<>>
    /\ sorted_articles = [p \in 1..n_articles |-> p]

\* C9: the articles run_job hands to translate_abstracts_in_batch for a keyword
\* are among the articles the reconciliation of the same review puts in
\* sorted_articles.
C9_OnlySelectedArticlesTranslated ==
    rv_pc = "reported" => Range(translated) \subseteq Range(sorted_articles)

(***************************************************************************)
(* Properties of the daily job                                             *)
(***************************************************************************)
\* the marker is a well-formed record whose last_run_date is day d
MarkerOf(d) == marker.kind = "ok" /\ marker.date = d

\* C5: a run_job call made while the marker holds today's date makes no search,
\* LLM or mail call, not even the admin report, and leaves the marker as it is;
\* and on no day does more than one run end without error and write the marker
\* (runs are counted from the last removal of the file by --clear-marker).
C5_SecondCallSameDayIsNoOp ==
    /\ [][(job_pc = "idle" /\ invocations' = invocations + 1 /\ MarkerOf(today)) =>
              /\ job_pc' = "idle"
              /\ job_result' = "skipped"
              /\ UNCHANGED <<marker, search_calls, llm_calls, report_mails, admin_mails>>]_vars
    /\ [](\A d \in 1..MaxDay : successful_runs[d] <= 1)

C5_Witness ==
    /\ job_result = "skipped"
    /\ call_day = today
    /\ successful_runs[today] = 1
    /\ MarkerOf(today)
    /\ search_calls > 0

\* C6: when a run that reached the keyword loop is over, every keyword of the
\* configuration was attempted, also when the processing of a keyword raised.
C6_LaterKeywordsStillProcessed ==
    (job_result = "done" /\ config = "loaded" /\ ~setup_failed) =>
        attempted = 1..n_keywords

\* C7: a run in which load_config or a service constructor raised has made no
\* search, LLM or report-mail call and leaves the marker file as it found it,
\* so has_run_today is still false on the day of the call.
C7_SetupFailureLeavesMarker ==
    (job_result = "done" /\ setup_failed) =>
        /\ search_calls = 0
        /\ llm_calls = 0
        /\ report_mails = 0
        /\ marker = marker_at_start
        /\ today = call_day => has_run_today(marker, today) = "false"

C7_Witness ==
    /\ job_result = "done"
    /\ setup_failed
    /\ config = "loaded"
    /\ admin_mails = 1
    /\ today = call_day
    /\ marker.kind = "ok"

\* C8: has_run_today never raises, and it returns true only for a well-formed
\* record whose last_run_date is the day of the call.
C8_GuardNeverRaises ==
    /\ job_result # "guard_raised"
    /\ job_result = "skipped" => MarkerOf(call_day)

(***************************************************************************)
(* Properties of send_email                                                *)
(***************************************************************************)
\* C10: one call makes at most max_retries attempts and calls server.sendmail
\* at most once; an attempt changes neither the chosen account nor the cursor;
\* an attempt that fails with the transient status while attempts remain is
\* followed by one sleep and the next attempt; a successful send ends the call.
C10_BoundedRetrySameAccount ==
    /\ [](/\ attempts_made <= max_retries
          /\ sendmail_calls <= 1
          /\ mail_result = "sent" => mail_pc = "idle")
    /\ [][(mail_pc = "attempt" /\ attempts_made' = attempts_made + 1) =>
              /\ account' = account
              /\ current_account_index' = current_account_index
              /\ (last_error' = "transient" /\ attempts_made' < max_retries) =>
                     /\ mail_pc' = "attempt"
                     /\ attempt' = attempt + 1
                     /\ sleeps' = sleeps + 1
              /\ sendmail_ok' > sendmail_ok => mail_pc' = "idle"]_vars

C10_Witness ==
    /\ mail_result = "sent"
    /\ attempts_made = max_retries
    /\ attempts_made >= 2
    /\ sleeps = attempts_made - 1
    /\ last_error = "none"
    /\ sendmail_calls = 1

\* C11: an attempt that fails with anything but the transient status (another
\* exception, or a connection error with another code) ends the call at once,
\* whatever number of attempts remain: no sleep, no further iteration, and the
\* call returns with the error logged.
C11_OtherErrorsAbortAtOnce ==
    /\ [][(mail_pc = "attempt" /\ attempts_made' = attempts_made + 1
              /\ last_error' \in {"other", "connect"}) =>
              /\ mail_pc' = "idle"
              /\ sleeps' = sleeps
              /\ attempt' = attempt
              /\ mail_result' \in {"error", "connect_error"}]_vars
    /\ [](last_error \in {"other", "connect"} =>
              /\ mail_pc = "idle"
              /\ mail_result \in {"error", "connect_error"})

C11_Witness ==
    /\ last_error \in {"other", "connect"}
    /\ mail_pc = "idle"
    /\ attempts_made = 2
    /\ max_retries = 3
    /\ sleeps = 1

\* the accounts of cursor_sends at positions k .. k + n - 1
CursorWindow(k, n) == {cursor_sends[i] : i \in k..(k + n - 1)}

\* C12: on a sender of N >= 1 accounts a call with a valid explicit index uses
\* that account and leaves the cursor where it is; any other call uses the
\* account the cursor designates when the call is made and advances the cursor
\* by one modulo N; the cursor moves at the call only, never at a retry; any N
\* consecutive cursor-selected calls use every account exactly once.
C12_RoundRobinCursor ==
    /\ [][(sends' = sends + 1 /\ n_accounts >= 1) =>
              IF valid_account_index(account_index', n_accounts)
              THEN /\ account' = account_index'.index
                   /\ current_account_index' = current_account_index
                   /\ cursor_sends' = cursor_sends
              ELSE /\ account' = current_account_index
                   /\ current_account_index' = (current_account_index + 1) % n_accounts
                   /\ cursor_sends' = Append(cursor_sends, account')]_vars
    /\ [][sends' = sends => current_account_index' = current_account_index]_vars
    /\ [](n_accounts >= 1 =>
              \A k \in 1..(Len(cursor_sends) - n_accounts + 1) :
                  CursorWindow(k, n_accounts) = 0..(n_accounts - 1))

C12_Witness ==
    /\ n_accounts >= 2
    /\ Len(cursor_sends) > n_accounts
    /\ sleeps >= 1
    /\ account_index.given
    /\ account # cursor_sends[Len(cursor_sends)]

\* C13: send_email never lets an exception reach its caller, whatever the
\* account list and max_retries are.
C13_SendEmailNeverRaises == mail_result # "raised"

(***************************************************************************)
(* Further properties of the daily job                                     *)
(***************************************************************************)
\* C14: every run that passed the guard with an admin recipient configured
\* ends with exactly one admin report, whose status reads failure exactly when
\* an error occurred; this holds after a success, after a failure of
\* load_config or of a service constructor, and after a failure in the loop.
C14_AdminReportWhateverOutcome ==
    (job_result = "done" /\ admin_email) =>
        /\ admin_mails = 1
        /\ admin_status = "failure" <=> error_occurred
        /\ admin_status = "success" <=> ~error_occurred

\* every keyword of the loaded configuration had its loop body entered
AllAttempted == attempted = 1..n_keywords

\* C15: the marker file is written by run_job in the finally block only, with
\* the date of that moment, and only when every configured keyword was
\* attempted; a run that stopped before leaves the file as it found it, so a
\* run_job call on the same day passes the guard again and its loop starts
\* over at the first keyword with nothing counted as done.
C15_MarkerOnlyAfterAllKeywords ==
    /\ [][(job_pc = "finally" /\ job_pc' = "idle") =>
              /\ marked' => (AllAttempted /\ ~error_occurred)
              /\ marker' # marker => (marked' /\ marker' = [kind |-> "ok", date |-> today])
              /\ ~marked' => marker' = marker]_vars
    /\ [][(marker' # marker /\ job_pc # "finally") =>
              (job_pc = "idle" /\ job_result' = "cleared" /\ marker'.kind = "absent")]_vars
    /\ []((job_result = "done" /\ ~AllAttempted) => (~marked /\ marker = marker_at_start))
    /\ [][(job_pc = "idle" /\ job_result = "done" /\ ~AllAttempted /\ today = call_day
              /\ invocations' = invocations + 1) => job_pc' = "setup"]_vars
    /\ [][(job_pc = "setup" /\ job_pc' = "loop") =>
              (kw_i' = 1 /\ attempted' = {} /\ report_mails' = 0)]_vars

C15_Witness ==
    /\ prior_partial
    /\ job_result = "done"
    /\ n_keywords = 2
    /\ AllAttempted
    /\ report_mails >= 2
    /\ marked
    /\ MarkerOf(today)

\* C17: a keyword whose search returns no article gets no generate_review
\* call, no translation call and no report mail, sets no error, and the loop
\* goes on with the next keyword (or ends after the last one); an error of the
\* run never comes from such a keyword, and a run whose keywords all return no
\* article ends as a success, marker written.
C17_NoArticlesIsNotAnError ==
    /\ [][(job_pc = "loop" /\ no_article_kws' # no_article_kws) =>
              /\ review_calls' = review_calls
              /\ translate_calls' = translate_calls
              /\ report_mails' = report_mails
              /\ error_occurred' = error_occurred
              /\ IF kw_i < n_keywords
                 THEN job_pc' = "loop" /\ kw_i' = kw_i + 1
                 ELSE job_pc' = "finally"]_vars
    /\ []((job_result = "done" /\ error_occurred /\ ~setup_failed) =>
              kw_i \notin no_article_kws)
    /\ []((job_result = "done" /\ n_keywords >= 1 /\ no_article_kws = 1..n_keywords) =>
              (~error_occurred /\ marked /\ admin_status # "failure"
                  /\ review_calls = 0 /\ translate_calls = 0 /\ report_mails = 0))

C17_Witness ==
    /\ job_result = "done"
    /\ n_keywords = 2
    /\ no_article_kws = {1}
    /\ AllAttempted
    /\ report_mails >= 1
    /\ review_calls = 1
    /\ ~error_occurred
    /\ marked
    /\ admin_status = "success"

(***************************************************************************)
(* Properties of the configuration and of the delivery                     *)
(***************************************************************************)
\* the addresses of the user groups that name the keyword
SubscribersOf(keyword) ==
    UNION { Range(user_groups[g].emails) :
                g \in {h \in 1..Len(user_groups) : keyword \in Range(user_groups[h].keywords)} }

\* no address occurs twice in the list
NoDuplicates(list) == \A i, j \in 1..Len(list) : list[i] = list[j] => i = j

\* the recipient list of the keyword is made of its subscribers, each once
RecipientListOnce(i) ==
    /\ NoDuplicates(keyword_to_emails[i].emails)
    /\ Range(keyword_to_emails[i].emails) = SubscribersOf(keyword_to_emails[i].keyword)

\* C16 as stated: for every keyword for which articles were found,
\* send_report_email is invoked exactly once per subscribed recipient, in list
\* order, and a recipient subscribed through several groups is in the list once.
C16_OncePerRecipient ==
    \A i \in 1..Len(deliveries) :
        deliveries[i].found =>
            /\ RecipientListOnce(i)
            /\ deliveries[i].invoked = keyword_to_emails[i].emails

\* C16 amended: for every keyword for which articles were found,
\* send_report_email is invoked for the recipients of the keyword in list
\* order, each at most once, up to the first invocation that raises (for none
\* when the review generation raises), and exactly once per recipient when no
\* exception interrupts the keyword; the recipient list holds each subscriber
\* of the keyword once, however many groups subscribe it.
C16_OncePerRecipientUnlessRaised ==
    \A i \in 1..Len(deliveries) :
        deliveries[i].found =>
            /\ deliveries[i].keyword = keyword_to_emails[i].keyword
            /\ RecipientListOnce(i)
            /\ Len(deliveries[i].invoked) <= Len(keyword_to_emails[i].emails)
            /\ deliveries[i].invoked =
                   SubSeq(keyword_to_emails[i].emails, 1, Len(deliveries[i].invoked))
            /\ deliveries[i].outcome # "raised" =>
                   deliveries[i].invoked = keyword_to_emails[i].emails

C16_Witness ==
    /\ Len(deliveries) = 2
    /\ deliveries[1].outcome = "delivered"
    /\ deliveries[1].invoked = <<"a", "b", "c">>
    /\ deliveries[2].outcome = "raised"
    /\ deliveries[2].invoked = <<"b">>
    /\ keyword_to_emails[2].emails = <<"b", "c">>

\* C20: after load_config of a file with n >= 1 accounts and base interval b
\* the delay between recipient emails is the larger of 60 and the integer part
\* of b*60/n (200 for b = 10 and n = 3), never below 60, and loading the file
\* again with one more account never gives a longer delay.
C20_DelayBetweenEmails ==
    /\ []((cfg_pc \in {"loaded", "delivered"} /\ accounts_key /\ smtp_accounts >= 1) =>
              /\ delay_emails >= 60
              /\ base_minutes * 60 < 60 * smtp_accounts => delay_emails = 60
              /\ base_minutes * 60 >= 60 * smtp_accounts =>
                     /\ delay_emails * smtp_accounts <= base_minutes * 60
                     /\ base_minutes * 60 < (delay_emails + 1) * smtp_accounts
              /\ (base_minutes = 10 /\ smtp_accounts = 3) => delay_emails = 200)
    /\ [][smtp_accounts' = smtp_accounts + 1 => delay_emails' <= delay_emails]_vars

C20_Witness ==
    /\ cfg_pc = "loaded"
    /\ base_minutes = 10
    /\ smtp_accounts = 7
    /\ delay_emails = 85
    /\ prev_delay_emails = 100

C19_ForceRunIgnoresMarker ==
    (flags = "force_run" /\ start_config = "loaded" /\ start_pc = "main_loop") =>
        (startup_calls = 1 /\ startup_pipeline)

(***************************************************************************)
(* Rewriting and the references section                                    *)
(***************************************************************************)
\* the number of entries of each citation marker of s from position i, in text order
RECURSIVE MarkerSizes(_, _)
MarkerSizes(s, i) ==
    IF i > Len(s) THEN <<>>
    ELSE LET e == MarkerEnd(s, i)
         IN  IF e = 0 THEN MarkerSizes(s, i + 1)
             ELSE <<Len(MarkerNumbers(s, i + 1, e))>> \o MarkerSizes(s, e + 1)

\* C21: the rewritten body has as many citation markers as the body had after
\* the references section was stripped, and the k-th marker of the rewritten
\* body has as many entries as the k-th marker had before
C21_RewritePreservesMarkers ==
    rv_pc \in {"done", "reported"} =>
        MarkerSizes(new_body, 1) = MarkerSizes(split_body(review_text), 1)

\* a body of two markers, one of them with two entries, was renumbered
C21_Witness ==
    /\ rv_pc = "done"
    /\ new_body # split_body(review_text)
    /\ Len(MarkerSizes(new_body, 1)) = 2
    /\ \E k \in 1..2 : MarkerSizes(new_body, 1)[k] = 2

\* the text in front of the first references heading, the whole text without one
BeforeReferences(text) == SubSeq(text, 1, FirstHeading(text, 1) - 1)

\* C22: the call gives what it gives for the text cut in front of the references
\* heading: the same body, sorted_articles, renumbering map and citation_index
\* fields, so markers behind the heading influence none of them; the returned
\* body holds no part of the section, and without a heading it is the rewritten
\* whole text (stripped of surrounding whitespace)
C22_ReferencesSectionDiscarded ==
    rv_pc \in {"done", "reported"} =>
        LET cut == BeforeReferences(review_text)
            r == process_review_and_sort_articles(cut, n_articles,
                                                  [p \in 1..n_articles |-> 0])
            cites == citations_from(Strip(cut), 1)
        IN  /\ new_body = r.body
            /\ sorted_articles = r.sorted_articles
            /\ ref_map = r.old_to_new_map
            /\ citation_index = r.citation_index
            /\ "REF" \notin Range(new_body)
            /\ Len(new_body) <= Len(cut)
            /\ DOMAIN ref_map = Range(cites)
            /\ cites # <<>> => Range(sorted_articles) = Range(cites) \cap 1..n_articles

\* a review whose body cites an article and whose references section names
\* another number was reconciled
C22_Witness ==
    /\ rv_pc = "done"
    /\ FirstHeading(review_text, 1) <= Len(review_text)
    /\ sorted_articles # <<>>
    /\ ref_map # <<>>
    /\ Range(citations_from(review_text, 1)) # DOMAIN ref_map

(***************************************************************************)
(* The article list of a keyword                                           *)
(***************************************************************************)
\* C23: the list handed to process_review_and_sort_articles holds, position by
\* position, the articles generate_review numbered in the prompt: nothing was
\* added, removed or moved, only translated_abstract fields changed
C23_ArticleListKeptBetweenPromptAndReconciliation ==
    rv_pc = "reported" =>
        /\ reconciled_articles = prompt_articles
        /\ Len(articles) = n_articles
        /\ \A p \in 1..n_articles : articles[p].pmid = prompt_articles[p]

\* some but not all articles of the list were translated before the reconciliation
C23_Witness ==
    /\ rv_pc = "reported"
    /\ n_articles >= 3
    /\ \E p, q \in 1..n_articles :
          articles[p].translated_abstract /\ ~articles[q].translated_abstract
    /\ Len(sorted_articles) >= 2
    /\ sorted_articles[1] # 1

(***************************************************************************)
(* Properties of the translation                                           *)
(***************************************************************************)
\* the positions sent to the translator so far
SentToTranslator == UNION {Range(tr_batches[k].sent) : k \in 1..Len(tr_batches)}

\* C24: no translator failure and no batch with a wrong number of parts makes
\* the call raise; the articles of such a batch carry a failure text; after the
\* return every article to translate was sent, batches after a failed one
\* included, and every article has a translated_abstract; an article that came
\* with a non-empty one is never sent and keeps it
C24_TranslationFailuresAreContained ==
    /\ tr_pc = "raised" => tr_error \in {"KeyError", "ValueError"}
    /\ tr_pc = "raised" => tr_batches = <<>>
    /\ \A k \in 1..Len(tr_batches) :
          tr_batches[k].outcome \in {"parts_differ", "raised"} =>
              \A p \in Range(tr_batches[k].sent) : tr_articles[p] \in FailureSentinels
    /\ tr_pc = "returned" =>
          /\ SentToTranslator = {p \in DOMAIN tr_initial : untranslated(tr_initial[p])}
          /\ \A p \in DOMAIN tr_articles : tr_articles[p] # "none"
    /\ tr_pc \in {"loop", "returned", "raised"} =>
          \A p \in DOMAIN tr_initial :
              tr_initial[p] = "preset" =>
                  p \notin SentToTranslator /\ tr_articles[p] = "preset"

\* a call of three batches returned: the first failed in the translator, the
\* second came back with a wrong number of parts, the third was translated,
\* and one article came with the no-abstract text
C24_Witness ==
    /\ tr_pc = "returned"
    /\ Len(tr_batches) = 3
    /\ tr_batches[1].outcome = "raised"
    /\ tr_batches[2].outcome = "parts_differ"
    /\ tr_batches[3].outcome = "parts_match"
    /\ \E p \in DOMAIN tr_initial : tr_initial[p] = "preset"

(***************************************************************************)
(* Properties of the EmailQueue                                            *)
(***************************************************************************)
\* C25: what the caller reads after its k-th enqueue on a fresh queue, with no
\* retry_failed_tasks call made: len(pending_queue) = k, pending_size = k and
\* the enqueued statistic = k
C25_EnqueuedTasksArePending ==
    observed.read /\ retry_calls = 0 =>
        /\ observed.pending_len = observed.calls
        /\ observed.pending_size = observed.calls
        /\ observed.enqueued = observed.calls

\* C26: a retry_failed_tasks call appends the tasks of failed_queue to
\* pending_queue in their order, each with attempts 0 and no delay left,
\* empties failed_queue, returns their number and leaves every other task,
\* pending or in the hands of a worker, as it was
C26_RetryMovesEveryFailedTask ==
    [][retry_calls' # retry_calls =>
          LET moved == Len(failed_queue)
              kept == Len(pending_queue)
          IN  /\ failed_queue' = <<>>
              /\ retry_result' = moved
              /\ Len(pending_queue') = kept + moved
              /\ SubSeq(pending_queue', 1, kept) = pending_queue
              /\ \A k \in 1..moved :
                    LET t == pending_queue'[kept + k]
                    IN  /\ t.id = failed_queue[k].id
                        /\ t.priority = failed_queue[k].priority
                        /\ t.created_at = failed_queue[k].created_at
                        /\ t.attempts = 0
                        /\ t.delay_until <= q_now'
              /\ UNCHANGED <<processing_queue, workers>>]_vars

\* a retry_failed_tasks call moved a task that had failed three times, and
\* whose attempts it reset, while another task was pending
C26_Witness ==
    /\ main_last = "retry"
    /\ retry_result = 1
    /\ failed_queue = <<>>
    /\ Len(pending_queue) = 2
    /\ q_stats.failed = 1
    /\ q_stats.retried = 2
    /\ \A k \in 1..2 : pending_queue[k].attempts = 0

(***************************************************************************)
(* Properties of the CacheManager                                          *)
(***************************************************************************)
\* what get(k) owes the caller at time now, given the most recent set of k
ExpectedValue(l, now) ==
    IF l.state = "set" /\ now <= l.expires_at THEN l.value ELSE "None"

\* C27: get(k) returns the value of the most recent set of k while that entry
\* is neither past its expiry time nor deleted, cleared or evicted, and None
\* otherwise (never set, past its expiry time, deleted); delete(k) returns
\* True exactly when k was in the cache
C27_GetReturnsLatestSet ==
    [][cache_ops' # cache_ops =>
          /\ last_call'.op = "get" =>
                last_call'.result = ExpectedValue(latest[last_call'.key], c_now)
          /\ last_call'.op = "delete" =>
                last_call'.flag = (last_call'.key \in cached_keys(memory_cache))]_vars

\* a get returned the value set for its key at the very expiry time of the
\* entry, after a delete of a key
C27_Witness ==
    /\ last_call.op = "get"
    /\ last_call.result = "a"
    /\ latest[last_call.key].expires_at = c_now
    /\ \E k \in CacheKeys : latest[k].state = "deleted"

\* C28: a call of the decorated function whose earlier result for the same
\* arguments is cached and not past its expiry time does not execute the
\* function and returns that result, whatever the result is
C28_CachedResultNotRecomputed ==
    [][/\ cache_ops' # cache_ops
       /\ last_call'.op = "call"
       /\ last_call'.key \in cached_keys(memory_cache)
       /\ latest[last_call'.key].state = "set"
       /\ latest[last_call'.key].by_call
       /\ ~expired(entry_of(memory_cache, last_call'.key), c_now)
       => /\ ~last_call'.executed
          /\ last_call'.result = entry_of(memory_cache, last_call'.key).value]_vars

\* C29: when load_config fails, the exception that leaves it is a typed
\* configuration error: ConfigurationFileNotFoundError when the file does not
\* exist, and otherwise (an invalid user group, an empty smtp.accounts list)
\* ConfigurationValidationError with error_code CONFIG_VALIDATION_ERROR
C29_TypedConfigurationErrors ==
    cfg_pc = "failed" =>
        IF ~config_exists
        THEN load_error.type = "ConfigurationFileNotFoundError"
        ELSE load_error = [type |-> "ConfigurationValidationError",
                           error_code |-> "CONFIG_VALIDATION_ERROR"]

\* C31: every number of a marker of the body that designates an article is
\* replaced in the rewritten body by the citation_index stamped on that
\* article, and two different cited articles carry different citation_index
\* values, also when the body cites numbers that designate no article
C31_WrittenNumberIsCitationIndex ==
    rv_pc \in {"done", "reported"} =>
        LET out == citations_in_order(new_body)
        IN  /\ Len(out) = Len(BodyCitations)
            /\ \A k \in 1..Len(BodyCitations) :
                   BodyCitations[k] \in ValidCited =>
                       out[k] = citation_index[BodyCitations[k]]
            /\ \A o1, o2 \in ValidCited :
                   o1 # o2 => citation_index[o1] # citation_index[o2]

\* the body cites a number that designates no article before two articles, and
\* a number of an article was changed by the rewriting
C31_Witness ==
    /\ rv_pc = "done"
    /\ Cardinality(ValidCited) >= 2
    /\ \E k \in 1..Len(BodyCitations) :
           /\ BodyCitations[k] \notin ValidCited
           /\ \A o \in ValidCited : k < FirstCited(o)
    /\ \E k \in 1..Len(BodyCitations) :
           /\ BodyCitations[k] \in ValidCited
           /\ citations_in_order(new_body)[k] # BodyCitations[k]

\* C30: the in-memory cache never holds more than max_size entries
C30_CacheSizeBounded == Len(memory_cache) <= max_size

C33_DeliveryFailureIsNotAnError ==
    /\ [][(job_pc = "finally" /\ job_pc' = "idle" /\ undelivered /\ ~exception_caught) =>
              /\ ~error_occurred
              /\ marked'
              /\ marker' \in {marker, [kind |-> "ok", date |-> today]}
              /\ admin_mails' = 1 => admin_status' = "success"
              /\ admin_mails' = 0 => admin_status' = "none"]_vars
    /\ [][(job_pc = "idle" /\ job_result = "done" /\ undelivered /\ ~exception_caught
               /\ invocations' = invocations + 1 /\ MarkerOf(today)) =>
              /\ job_result' = "skipped"
              /\ UNCHANGED <<report_mails, search_calls, llm_calls, undelivered>>]_vars

\* a later call of the same day was skipped after a run with undelivered
\* reports that wrote the marker and reported success to the admin
C33_Witness ==
    /\ job_result = "skipped"
    /\ call_day = today
    /\ undelivered
    /\ ~exception_caught
    /\ marked
    /\ MarkerOf(today)
    /\ admin_status = "success"
    /\ report_mails > 0

\* C34: a run that finds an empty keyword mapping makes no search, LLM or
\* report-mail call and ends without error: its finally block calls
\* mark_today_as_run, which leaves today's date in the marker unless the file
\* cannot be written; while the marker holds today's date the next run_job call
\* is skipped, without looking at the configuration.
C34_EmptyMappingIsASuccessfulRun ==
    /\ [][(job_pc = "finally" /\ job_pc' = "idle" /\ config = "loaded" /\ ~setup_failed
               /\ n_keywords = 0) =>
              /\ search_calls = 0 /\ llm_calls = 0 /\ report_mails = 0
              /\ ~error_occurred
              /\ marked'
              /\ marker' \in {marker, [kind |-> "ok", date |-> today]}]_vars
    /\ [][(job_pc = "idle" /\ job_result = "done" /\ config = "loaded" /\ ~setup_failed
               /\ n_keywords = 0 /\ invocations' = invocations + 1 /\ MarkerOf(today)) =>
              /\ job_result' = "skipped"
              /\ UNCHANGED <<config, n_keywords, search_calls, llm_calls, report_mails>>]_vars

\* a later call of the same day was skipped after a run over an empty mapping
\* wrote the marker
C34_Witness ==
    /\ job_result = "skipped"
    /\ call_day = today
    /\ config = "loaded"
    /\ ~setup_failed
    /\ n_keywords = 0
    /\ marked
    /\ MarkerOf(today)
    /\ search_calls = 0
    /\ marker_at_start.kind # "ok"

\* how many entries of the sequence of tasks q carry the id
Occurrences(q, id) == Cardinality({k \in 1..Len(q) : q[k].id = id})

\* the id is in the batch of a worker thread
InBatch(id) == \E w \in BagToSet(workers) : Occurrences(w.batch, id) > 0

\* C35: in every reachable state each task enqueued and not sent successfully
\* is in exactly one of pending_queue, processing_queue and failed_queue, once;
\* the tasks of processing_queue are those in the batches of the workers, and
\* a task is in the batch of one worker only, once
C35_EachTaskInOnePlace ==
    /\ \A id \in (1..enqueue_calls) \ sent_ok :
           Occurrences(pending_queue, id) + Occurrences(failed_queue, id)
               + (IF id \in processing_queue THEN 1 ELSE 0) = 1
    /\ \A id \in 1..enqueue_calls : id \in processing_queue <=> InBatch(id)
    /\ \A w \in BagToSet(workers) :
           \A k \in 1..Len(w.batch) :
               /\ CopiesIn(w, workers) = 1
               /\ Occurrences(w.batch, w.batch[k].id) = 1
               /\ \A v \in BagToSet(workers) \ {w} : Occurrences(v.batch, w.batch[k].id) = 0

\* two workers hold a task each after a retry_failed_tasks call
C35_Witness ==
    /\ Cardinality({w \in BagToSet(workers) : w.pc = "sending"}) = 2
    /\ Cardinality(processing_queue) = 2
    /\ retry_calls = 1
    /\ retry_result = 1

\* the tasks that are in a queue or in the batch of a worker
LiveTasks ==
    Range(pending_queue) \cup Range(failed_queue)
        \cup UNION {Range(w.batch) : w \in BagToSet(workers)}

\* the task with the id among the tasks live, which are those in a queue or in
\* a batch
TaskOf(live, id) == CHOOSE t \in live : t.id = id

\* the clock reading of the process_batch call that holds the task with the id
BatchTimeOf(id) ==
    (CHOOSE w \in BagToSet(workers) : Occurrences(w.batch, id) > 0).current_time

\* C36: the attempt counter of a task counts its failed _send_email calls
\* since its enqueue or its reset by retry_failed_tasks and is below
\* max_attempts while the task is pending or in a batch, so a task is handed
\* to _send_email at most max_attempts times; a failed call that brings the
\* counter to max_attempts appends the task to failed_queue, a failed call
\* below that appends it to pending_queue with delay_until = the clock reading
\* of that process_batch call + retry_delay; a task sent successfully is in no
\* queue and in no batch afterwards
C36_BoundedAttempts ==
    /\ [](\A t \in Range(pending_queue) \cup UNION {Range(w.batch) : w \in BagToSet(workers)} :
              t.attempts < DefaultMaxAttempts)
    /\ [](\A t \in Range(failed_queue) : t.attempts = DefaultMaxAttempts)
    /\ [](\A id \in sent_ok : \A t \in LiveTasks : t.id # id)
    /\ [][\/ UNCHANGED <<pending_queue, failed_queue, processing_queue, workers, sent_ok>>
          \/ LET live == LiveTasks
                 live_after == LiveTasks'
             IN  \A id \in (1..enqueue_calls) \ sent_ok :
                   LET t == TaskOf(live, id)
                       tried == [t EXCEPT !.attempts = @ + 1]
                       delayed == [tried EXCEPT !.delay_until = BatchTimeOf(id) + retry_delay]
                   IN  IF id \in processing_queue /\ id \notin processing_queue'
                       THEN \/ id \in sent_ok' /\ UNCHANGED <<pending_queue, failed_queue>>
                            \/ /\ id \notin sent_ok'
                               /\ tried.attempts = DefaultMaxAttempts
                               /\ failed_queue' = Append(failed_queue, tried)
                               /\ UNCHANGED pending_queue
                            \/ /\ id \notin sent_ok'
                               /\ tried.attempts < DefaultMaxAttempts
                               /\ pending_queue' = Append(pending_queue, delayed)
                               /\ UNCHANGED failed_queue
                       ELSE /\ id \notin sent_ok'
                            /\ \/ TaskOf(live_after, id).attempts = t.attempts
                               \/ /\ retry_calls' # retry_calls
                                  /\ Occurrences(failed_queue, id) = 1
                                  /\ TaskOf(live_after, id).attempts = 0]_vars

\* a task is in failed_queue after its third failed call, the first two of
\* which put it back in pending_queue, while a worker holds another task
C36_Witness ==
    /\ \E k \in 1..Len(failed_queue) : failed_queue[k].attempts = DefaultMaxAttempts
    /\ \E w \in BagToSet(workers) : w.pc = "sending"
    /\ q_stats.retried = 2
    /\ q_stats.failed = 1

\* C37: pending_queue is ordered by the sort key of enqueue in every reachable
\* state: higher priority first, then earlier creation time
C37_PendingQueueSorted ==
    \A i, j \in 1..Len(pending_queue) :
        i < j => key_le(pending_queue[i], pending_queue[j])

\* C38: when no save thread is left to run, the table holds exactly the keys
\* of the in-memory cache, each with the value of its entry
C38_StoreAgreesWithCache ==
    save_threads = EmptyBag =>
        \A k \in CacheKeys :
            store[k] = IF k \in cached_keys(memory_cache)
                       THEN entry_of(memory_cache, k).value
                       ELSE "absent"

\* C39: with worker threads that keep running and a clock that keeps
\* advancing, a task that is in pending_queue or in processing_queue, a due
\* task waiting behind a delayed one included, is eventually in neither, and
\* is then sent successfully or in failed_queue
C39_EveryTaskSettles ==
    \A id \in 1..MaxTasks :
        (Occurrences(pending_queue, id) > 0 \/ id \in processing_queue)
            ~> ((id \in sent_ok \/ Occurrences(failed_queue, id) > 0)
                    /\ Occurrences(pending_queue, id) = 0 /\ id \notin processing_queue)

\* every task enqueued is settled, one sent after a failed attempt and one in
\* failed_queue
C39_Witness ==
    /\ enqueue_calls = MaxTasks
    /\ pending_queue = <<>>
    /\ processing_queue = {}
    /\ sent_ok # {}
    /\ failed_queue # <<>>
    /\ q_stats.retried >= DefaultMaxAttempts

====
